---- MODULE Spec2Model ----
(***************************************************************************)
(* markdocify: the crawl-and-aggregate pipeline.                           *)
(*                                                                         *)
(*   internal/scraper/scraper.go        Scraper: link filter, page handler,*)
(*                                      retry loop, RunWithContext         *)
(*   internal/aggregator/aggregator.go  Aggregator: AddPage, GenerateOutput*)
(*   internal/converter/converter.go    Converter: ConvertToMarkdown       *)
(*                                                                         *)
(* Strings are sequences of tokens: a token is a separator ("/", ".", ":", *)
(* "?", "#") or a word that holds no separator, and a string is the        *)
(* concatenation of its tokens.                                            *)
(*                                                                         *)
(* The collector is built without colly.Async, so collector.Visit and      *)
(* Request.Visit fetch the page and run the page handler before they       *)
(* return: the crawl is a depth-first recursion on the worker goroutine.   *)
(* The goroutines of a run are the caller of RunWithContext (select at     *)
(* scraper.go:503), the crawl worker (scraper.go:442-501) and the context  *)
(* (deadline timer or parent cancellation).                                *)
(***************************************************************************)
EXTENDS Integers, Sequences, FiniteSets, TLC

VARIABLES
    config,         \* *config.Config of the run (read-only after construction)
    pages,          \* Aggregator.pages
    contentHashes,  \* Aggregator.contentHashes
    mu,             \* Aggregator.mu: 0 when free, else the caller holding it
    callers,        \* concurrent AddPage callers: position and arguments
    added,          \* the AddPage calls that have returned, in order
    visitedURLs,    \* Scraper.visitedURLs
    pageCount,      \* Scraper.pageCount
    ctxErr,         \* timeoutCtx.Err(): "none", "deadline" or "canceled"
    done,           \* buffer of the channel done (capacity 1)
    doneClosed,     \* close(done) has run
    mainPC,         \* RunWithContext caller: "select" or "returned"
    result,         \* value RunWithContext returned
    workerPC,       \* position of the crawl worker goroutine
    seedIdx,        \* index into config.StartURLs of the seed being processed
    maxRetries,     \* parameter maxRetries of visitWithRetry
    attempt,        \* loop variable i of visitWithRetry
    allErrors,      \* allErrors of the worker: indices of the seeds that failed
    stack,          \* handler frames of findAndFollowLinks in progress
    sleeps,         \* backoff durations (seconds) slept by visitWithRetry, per seed index
    failures,       \* fetch failures the environment has produced so far
    outputFile,     \* the output file: whether it was written, and the pages in it
    fetchLog,       \* every call of collector.Visit / Request.Visit, in order
    sentAfterCtx,   \* whether the context was done when the worker sent its result
    ctxAtReturn,    \* timeoutCtx.Err() when RunWithContext returned
    probe,          \* string handed to shouldFollow, isAllowedDomain or createAnchor
    verdict,        \* what shouldFollow returned for probe, "none" before the call
    domainVerdict,  \* what isAllowedDomain returned for probe, "none" before the call
    genErr,         \* what the last direct call of GenerateOutput returned
    anchor,         \* what createAnchor returned for probe, once it was called
    runs,           \* calls of RunWithContext made on this Scraper so far
    cleaned,        \* what cleanTitle returned for probe, once it was called
    newErr          \* what New returned for config: "none" before the call

aggVars    == <<pages, contentHashes, mu>>
callVars   == <<callers, added>>
crawlVars  == <<visitedURLs, pageCount, ctxErr, done, doneClosed, mainPC, result,
                workerPC, seedIdx, attempt, allErrors, stack, sleeps, failures,
                outputFile, fetchLog, sentAfterCtx, ctxAtReturn>>
filterVars == <<probe, verdict, domainVerdict>>
genVars    == <<genErr, anchor>>
runVars    == <<runs>>
unitVars   == <<cleaned, newErr>>
vars       == <<config, maxRetries, aggVars, callVars, crawlVars, filterVars, genVars, runVars, unitVars>>

----------------------------------------------------------------------------
(* Bounds of the model *)

\* number of pages of the modelled site
NUrls == 5
\* fetch failures the environment may produce in one run
MaxFailures == 4
\* largest configured max_depth
MaxDepthBound == 3
\* goroutines calling AddPage concurrently
NCallers == 2
\* RunWithContext calls made on one Scraper
MaxRuns == 2
\* longest title handed to createAnchor, in tokens
MaxTitleLen == 3
\* largest maxRetries handed to visitWithRetry
MaxRetriesBound == 7

(* Program constants *)

DefaultMaxRetries == 3
DefaultBackoffBase == 1
MaxBackoffDelay == 30
\* depth colly gives a request started by collector.Visit
SeedDepth == 1

----------------------------------------------------------------------------
(* Strings as token sequences *)

HasPrefix(s, p) == Len(p) <= Len(s) /\ SubSeq(s, 1, Len(p)) = p

HasSuffix(s, p) == Len(p) <= Len(s) /\ SubSeq(s, Len(s) - Len(p) + 1, Len(s)) = p

\* the character U+2013 (en dash)
EnDash == "{U+2013}"

\* the words every statusPattern of cleanTitle starts with
StatusPrefix == "This feature is available in the latest"

\* strings.ToLower on one word
ToLower(w) ==
    CASE w = "Privacy" -> "privacy"
      [] w = "BLOG" -> "blog"
      [] w = "Docs" -> "docs"
      [] w = "Documentation" -> "documentation"
      [] w = "React" -> "react"
      [] w = "Stripe" -> "stripe"
      [] w = "Canary" -> "canary"
      [] w = "This" -> "this"
      [] w = "What" -> "what"
      [] w = "Guide" -> "guide"
      [] w = "Home" -> "home"
      [] w = "API" -> "api"
      [] w = "Page" -> "page"
      [] w = "Untitled" -> "untitled"
      [] w = "A" -> "a"
      [] w = "B" -> "b"
      [] w = "P" -> "p"
      [] OTHER -> w

Https(host, path) == <<"https", ":", "/", "/">> \o host \o path

\* url.Parse(urlStr).Host: the tokens between "//" and the next "/", "?" or "#"
RECURSIVE TakeHost(_)
TakeHost(s) ==
    IF s = <<>> \/ Head(s) \in {"/", "?", "#"} THEN <<>>
    ELSE <<Head(s)>> \o TakeHost(Tail(s))

ParseHost(u) ==
    IF Len(u) >= 4 /\ SubSeq(u, 2, 4) = <<":", "/", "/">>
    THEN TakeHost(SubSeq(u, 5, Len(u)))
    ELSE <<>>

\* the tokens "%zz" (a malformed percent escape) make url.Parse fail
ParseFails(u) == \E i \in 1..Len(u) : u[i] = "%zz"

----------------------------------------------------------------------------
(* Link filter *)

\* skipPatterns of isPrivacyOrLegalURL, in source order
SkipPatterns ==
    << "privacy", "terms", "legal", "cookies", "gdpr",
       "about", "contact", "support", "careers", "jobs",
       "blog(?!/)", "news", "press", "media",
       "pricing", "enterprise", "commercial", "sales",
       "login", "signup", "register", "account", "profile",
       "404", "error", "maintenance", "status" >>

\* regexp.MatchString compiles "(?i)/(" + pattern + ")($|[/?#])"; the regexp
\* package (RE2 syntax) has no lookahead, so a pattern holding "(?!" does not
\* compile, and the error is dropped with matched = false
SkipPatternCompiles(pattern) == pattern # "blog(?!/)"

\* "(?i)/(" + pattern + ")($|[/?#])" found anywhere in urlStr
SkipPatternMatches(pattern, urlStr) ==
    /\ SkipPatternCompiles(pattern)
    /\ \E i \in 1..Len(urlStr) :
          /\ urlStr[i] = "/"
          /\ i + 1 <= Len(urlStr)
          /\ ToLower(urlStr[i + 1]) = pattern
          /\ (i + 1 = Len(urlStr) \/ urlStr[i + 2] \in {"/", "?", "#"})

isPrivacyOrLegalURL(urlStr) ==
    \E k \in 1..Len(SkipPatterns) : SkipPatternMatches(SkipPatterns[k], urlStr)

\* A compiled follow/ignore pattern is one of
\*   [kind |-> "prefix", lit |-> t]   ^t.*
\*   [kind |-> "suffix", lit |-> t]   .*t$
\* and re.MatchString(urlStr) is
MatchString(re, urlStr) ==
    CASE re.kind = "prefix" -> HasPrefix(urlStr, re.lit)
      [] re.kind = "suffix" -> HasSuffix(urlStr, re.lit)

MatchesAny(patterns, urlStr) ==
    \E k \in 1..Len(patterns) : MatchString(patterns[k], urlStr)

shouldFollowIgnoreLast(urlStr) ==
    IF isPrivacyOrLegalURL(urlStr) THEN FALSE
    ELSE IF Len(config.FollowPatterns) > 0
         THEN MatchesAny(config.FollowPatterns, urlStr)
    ELSE IF Len(config.IgnorePatterns) > 0 /\ MatchesAny(config.IgnorePatterns, urlStr)
         THEN FALSE
    ELSE TRUE

shouldFollow(urlStr) ==
    IF isPrivacyOrLegalURL(urlStr) THEN FALSE
    ELSE IF Len(config.IgnorePatterns) > 0 /\ MatchesAny(config.IgnorePatterns, urlStr)
         THEN FALSE
    ELSE IF Len(config.FollowPatterns) > 0
         THEN MatchesAny(config.FollowPatterns, urlStr)
    ELSE TRUE

\* the allow-list check accepting every URL
isAllowedDomainAlways(urlStr) == TRUE

isAllowedDomainNoDot(urlStr) ==
    IF Len(config.AllowedDomains) = 0 THEN TRUE
    ELSE IF ParseFails(urlStr) THEN FALSE
    ELSE \E k \in 1..Len(config.AllowedDomains) :
            \/ ParseHost(urlStr) = config.AllowedDomains[k]
            \/ HasSuffix(ParseHost(urlStr), config.AllowedDomains[k])

isAllowedDomain(urlStr) ==
    IF Len(config.AllowedDomains) = 0 THEN TRUE
    ELSE IF ParseFails(urlStr) THEN FALSE
    ELSE \E k \in 1..Len(config.AllowedDomains) :
            \/ ParseHost(urlStr) = config.AllowedDomains[k]
            \/ HasSuffix(ParseHost(urlStr), <<".">> \o config.AllowedDomains[k])

----------------------------------------------------------------------------
(* The site being crawled: page i of 1..NUrls has a URL, a title element, *)
(* a body matched by the content selector, and anchors in document order. *)

SiteURLs == 1..NUrls

DocsHost  == <<"d", ".", "io">>
OtherHost == <<"x", ".", "io">>

URLOf(i) ==
    CASE i = 1 -> Https(DocsHost, <<"/", "docs">>)
      [] i = 2 -> Https(DocsHost, <<"/", "docs", "/", "a">>)
      [] i = 3 -> Https(DocsHost, <<"/", "docs", "/", "b">>)
      [] i = 4 -> Https(DocsHost, <<"/", "Privacy">>)
      [] i = 5 -> Https(OtherHost, <<"/", "docs">>)
      [] OTHER -> Https(DocsHost, <<"/", "docs", "/", ToString(i)>>)

\* text of the title element ("" when the page has none)
TitleText(i) ==
    CASE i = 1 -> <<"Docs">>
      [] i = 2 -> <<"A", "a", "|", "Docs">>
      [] i = 3 -> <<"|", "React">>
      [] i = 5 -> <<>>
      [] OTHER -> <<"P">>

\* text of the elements matched by the title selector "h1" ("" when the page
\* has none)
SelectorText(i) ==
    CASE i = 1 -> <<"Guide">>
      [] i = 2 -> <<StatusPrefix, "Canary">>
      [] OTHER -> <<>>

\* inner HTML of the elements matched by the content selector, in document
\* order; pages 1 and 3 carry the same content, page 5 only white space
BodyOf(i) ==
    CASE i = 1 -> <<"A">>
      [] i = 2 -> <<"B">>
      [] i = 3 -> <<" ", "A">>
      [] i = 4 -> <<"P">>
      [] i = 5 -> <<" ", "\n">>
      [] OTHER -> <<"C">>

RECURSIVE Range(_, _)
Range(a, b) == IF a > b THEN <<>> ELSE <<a>> \o Range(a + 1, b)

\* a[href] targets of page i, in document order
LinksOf(i) ==
    CASE i = 1 -> <<2, 4, 3, 2>>
      [] i = 2 -> <<3, 5, 1>>
      [] i = 3 -> <<2>> \o Range(6, NUrls)
      [] i = 5 -> <<1>>
      [] OTHER -> <<>>

----------------------------------------------------------------------------
(* Converter *)

\* mdConverter.ConvertString followed by postProcessMarkdown, on the bodies
\* of the site
RenderMarkdown(html) ==
    CASE html = "A" -> "md-A"
      [] html = "B" -> "md-B"
      [] html = "P" -> "md-P"
      [] OTHER -> "md-C"

\* generateMetadata: the Source, Title and Depth comment lines
generateMetadata(page) == <<page.URL, page.Title, page.Depth>>

\* ConvertToMarkdown: the markdown is the metadata block (when
\* Output.IncludeMetadata is set) followed by the rendered body
ConvertToMarkdown(page) ==
    IF page.Content = ""
    THEN [err |-> TRUE, markdown |-> <<>>]
    ELSE [err |-> FALSE,
          markdown |-> (IF config.IncludeMetadata
                        THEN <<generateMetadata(page)>>
                        ELSE <<>>) \o <<RenderMarkdown(page.Content)>>]

----------------------------------------------------------------------------
(* Aggregator *)

\* fmt.Sprintf("%x", sha256.Sum256([]byte(content))): distinct contents have
\* distinct digests
Sha256(content) == <<"sha256", content>>

NewPage(url, title, content, depth) ==
    [URL |-> url, Title |-> title, Content |-> content, Depth |-> depth]

\* a.mu.Lock() returns for caller c once no one holds the mutex
CanLockUnguarded(c) == TRUE

CanLock(c) == mu = 0

\* the hash check of AddPage never finding the hash
IsDuplicateNever(content) == FALSE

IsDuplicate(content) == Sha256(content) \in contentHashes

\* the handler going on to link discovery without its AddPage call
AddPageSkipped(url, title, content, depth) == UNCHANGED <<pages, contentHashes, mu>>

\* AddPage run by the only goroutine that uses the Aggregator: lock, hash
\* check, append, record the hash, unlock
AddPage(url, title, content, depth) ==
    /\ CanLock(0)
    /\ IF IsDuplicate(content)
       THEN UNCHANGED <<pages, contentHashes>>
       ELSE /\ pages' = Append(pages, NewPage(url, title, content, depth))
            /\ contentHashes' = contentHashes \cup {Sha256(content)}
    /\ UNCHANGED mu

GetPageCount == Len(pages)

\* byte order of the tokens that occur in URLs
TokenOrder ==
    <<"#", ".", "/", "6", "7", "8", ":", "?", "Privacy", "a", "api", "b", "com",
      "d", "docs", "example", "https", "io", "page1", "page2", "x">>

TokenRank(t) ==
    IF \E k \in 1..Len(TokenOrder) : TokenOrder[k] = t
    THEN CHOOSE k \in 1..Len(TokenOrder) : TokenOrder[k] = t
    ELSE 0

\* u < v on strings
RECURSIVE StringLess(_, _)
StringLess(u, v) ==
    IF v = <<>> THEN FALSE
    ELSE IF u = <<>> THEN TRUE
    ELSE IF Head(u) = Head(v) THEN StringLess(Tail(u), Tail(v))
    ELSE TokenRank(Head(u)) < TokenRank(Head(v))

PageLessByURL(p, q) == StringLess(p.URL, q.URL)

\* the less function handed to sort.Slice
PageLess(p, q) ==
    IF p.Depth # q.Depth THEN p.Depth < q.Depth ELSE StringLess(p.URL, q.URL)

RECURSIVE InsertSorted(_, _)
InsertSorted(p, ps) ==
    IF ps = <<>> THEN <<p>>
    ELSE IF PageLess(p, Head(ps)) THEN <<p>> \o ps
    ELSE <<Head(ps)>> \o InsertSorted(p, Tail(ps))

\* sortPages: the pages in PageLess order (pages of equal depth and URL keep
\* their relative order here; sort.Slice leaves it unspecified)
RECURSIVE sortPages(_)
sortPages(ps) ==
    IF ps = <<>> THEN <<>>
    ELSE InsertSorted(ps[Len(ps)], sortPages(SubSeq(ps, 1, Len(ps) - 1)))

\* strings.LastIndex(s, "/"), 0 when s holds no "/"
RECURSIVE LastSlash(_)
LastSlash(s) ==
    IF s = <<>> THEN 0
    ELSE IF s[Len(s)] = "/" THEN Len(s)
    ELSE LastSlash(SubSeq(s, 1, Len(s) - 1))

\* unicode.ToUpper on the first letter and strings.ToLower on the rest
TitleCaseWord(w) ==
    CASE w = "api" -> "Api"
      [] w = "example" -> "Example"
      [] w = "page1" -> "Page1"
      [] w = "page2" -> "Page2"
      [] w \in {"docs", "Docs"} -> "Docs"
      [] w \in {"privacy", "Privacy"} -> "Privacy"
      [] w = "a" -> "A"
      [] w = "b" -> "B"
      [] w = "d" -> "D"
      [] w = "x" -> "X"
      [] OTHER -> w

\* titleCase on a part that holds no space, "-" or "_": one word
titleCase(part) ==
    IF part = <<>> THEN <<>>
    ELSE <<TitleCaseWord(Head(part))>> \o [k \in 1..(Len(part) - 1) |-> ToLower(part[k + 1])]

\* extractTitleFromURL: the last part of the URL split at "/", or the part
\* before it when the URL ends in "/"
extractTitleFromURL(url) ==
    LET ls       == LastSlash(url)
        last     == SubSeq(url, ls + 1, Len(url))
        before   == SubSeq(url, 1, ls - 1)
        lastPart == IF last = <<>> /\ ls > 0
                    THEN SubSeq(before, LastSlash(before) + 1, Len(before))
                    ELSE last
    IN  IF lastPart # <<>> THEN titleCase(lastPart) ELSE <<"Untitled">>

\* a title, kept as its words, written out as a string: the words with one
\* space between them
RECURSIVE TitleString(_)
TitleString(words) ==
    IF words = <<>> THEN <<>>
    ELSE IF Len(words) = 1 THEN words
    ELSE <<Head(words), " ">> \o TitleString(Tail(words))

\* the characters createAnchor deletes, in source order
StrippedChars ==
    << ".", "(", ")", "/", "\\", ":", ";", "?", "!", "@", "#", "$", "%", "^",
       "&", "*", "+", "=", "[", "]", "{", "}", "|", "\"", "'", "<", ">", "," >>

\* strings.ReplaceAll(s, old, new) for a one-character old; new is a string
RECURSIVE ReplaceAll(_, _, _)
ReplaceAll(s, old, new) ==
    IF s = <<>> THEN <<>>
    ELSE (IF Head(s) = old THEN new ELSE <<Head(s)>>) \o ReplaceAll(Tail(s), old, new)

\* the ReplaceAll(anchor, c, "") calls for the first n stripped characters
RECURSIVE StripChars(_, _)
StripChars(s, n) ==
    IF n = 0 THEN s
    ELSE ReplaceAll(StripChars(s, n - 1), StrippedChars[n], <<>>)

\* strings.ReplaceAll(s, "--", "-"): non-overlapping, left to right
RECURSIVE ReplaceDoubleHyphen(_)
ReplaceDoubleHyphen(s) ==
    IF Len(s) < 2 THEN s
    ELSE IF s[1] = "-" /\ s[2] = "-" THEN <<"-">> \o ReplaceDoubleHyphen(SubSeq(s, 3, Len(s)))
    ELSE <<Head(s)>> \o ReplaceDoubleHyphen(Tail(s))

ContainsDoubleHyphen(s) == \E k \in 1..(Len(s) - 1) : s[k] = "-" /\ s[k + 1] = "-"

\* for strings.Contains(anchor, "--") { anchor = ReplaceAll(anchor, "--", "-") }
RECURSIVE CollapseHyphens(_)
CollapseHyphens(s) ==
    IF ContainsDoubleHyphen(s) THEN CollapseHyphens(ReplaceDoubleHyphen(s)) ELSE s

\* strings.Trim(s, "-")
RECURSIVE TrimHyphens(_)
TrimHyphens(s) ==
    IF s = <<>> THEN s
    ELSE IF Head(s) = "-" THEN TrimHyphens(Tail(s))
    ELSE IF s[Len(s)] = "-" THEN TrimHyphens(SubSeq(s, 1, Len(s) - 1))
    ELSE s

\* createAnchor on a string whose tokens are words, spaces and single
\* punctuation characters
createAnchor(title) ==
    LET lower  == [k \in 1..Len(title) |-> ToLower(title[k])]
        dashed == ReplaceAll(lower, " ", <<"-">>)
    IN  TrimHyphens(CollapseHyphens(StripChars(dashed, Len(StrippedChars))))

\* strings.Repeat("  ", page.Depth): the number of spaces before a TOC entry
TocIndentOneSpace(depth) == depth

TocIndent(depth) == 2 * depth

\* writeTableOfContents: one entry per page of a.pages, in order
writeTableOfContents(ps) ==
    [k \in 1..Len(ps) |->
        [indent |-> TocIndent(ps[k].Depth),
         title  |-> ps[k].Title,
         anchor |-> createAnchor(TitleString(ps[k].Title))]]

\* writeMetadata: the Total Pages and Max Depth lines of the document header
writeMetadata(ps) == <<[totalPages |-> Len(ps), maxDepth |-> config.MaxDepth]>>

\* the heading level of a page in the document
HeadingLevelUncapped(depth) == depth + 1

HeadingLevel(depth) == IF depth + 1 > 6 THEN 6 ELSE depth + 1

\* one element of the document body: the rule written between two pages
PageRule == [kind |-> "rule", level |-> 0, title |-> <<>>, source |-> <<>>, content |-> <<>>]

\* ... or a page: heading, source line (with Output.IncludeMetadata) and the
\* page's content
PageSection(page) ==
    [kind    |-> "page",
     level   |-> HeadingLevel(page.Depth),
     title   |-> IF page.Title = <<>> \/ page.Title = <<"Untitled">>
                 THEN extractTitleFromURL(page.URL)
                 ELSE page.Title,
     source  |-> IF config.IncludeMetadata THEN page.URL ELSE <<>>,
     content |-> page.Content]

\* the rule written before the page at index i of a.pages, also before the
\* first page
SeparatorBeforeEvery(i) == TRUE

\* if i > 0: the rule is written before every page but the first
SeparatorBefore(i) == i > 0

\* the loop of writeContent over a.pages; the page ps[k] has index k - 1
RECURSIVE writeContent(_)
writeContent(ps) ==
    IF ps = <<>> THEN <<>>
    ELSE writeContent(SubSeq(ps, 1, Len(ps) - 1))
            \o (IF SeparatorBefore(Len(ps) - 1) THEN <<PageRule>> ELSE <<>>)
            \o <<PageSection(ps[Len(ps)])>>

\* the file after writeToFile succeeded on the sorted pages ps
WrittenFile(ps) ==
    [written |-> TRUE,
     pages   |-> ps,
     header  |-> IF config.IncludeMetadata THEN writeMetadata(ps) ELSE <<>>,
     toc     |-> IF config.GenerateTOC THEN writeTableOfContents(ps) ELSE <<>>,
     body    |-> writeContent(ps)]

NoFile == [written |-> FALSE, pages |-> <<>>, header |-> <<>>, toc |-> <<>>, body |-> <<>>]

\* createAnchor has not been called
NoAnchor == [called |-> FALSE, value |-> <<>>]

\* cleanTitle has not been called
NoTitle == [called |-> FALSE, value |-> <<>>]

----------------------------------------------------------------------------
(* Content extractor *)

\* dropping a word equal, ignoring case, to any word before it
RECURSIVE DedupWordsAnywhere(_)
DedupWordsAnywhere(words) ==
    IF Len(words) <= 1 THEN words
    ELSE LET rest == DedupWordsAnywhere(SubSeq(words, 1, Len(words) - 1))
         IN IF \E k \in 1..(Len(words) - 1) : ToLower(words[Len(words)]) = ToLower(words[k])
            THEN rest
            ELSE Append(rest, words[Len(words)])

\* cleanTitle on the titles of the site: drop a word equal, ignoring case, to
\* the word before it
RECURSIVE DedupWords(_)
DedupWords(words) ==
    IF Len(words) <= 1 THEN words
    ELSE LET rest == DedupWords(SubSeq(words, 1, Len(words) - 1))
         IN IF ToLower(words[Len(words)]) = ToLower(words[Len(words) - 1])
            THEN rest
            ELSE Append(rest, words[Len(words)])

\* `StatusPrefix.*?last`: StatusPrefix and the words up to the nearest
\* following word last
UpToEnd(ws, last) ==
    IF ws = <<>> THEN 0
    ELSE IF /\ Head(ws) = StatusPrefix
            /\ \E j \in 2..Len(ws) : ToLower(ws[j]) = last
         THEN CHOOSE j \in 2..Len(ws) :
                  /\ ToLower(ws[j]) = last
                  /\ \A i \in 2..(j - 1) : ToLower(ws[i]) # last
         ELSE 0

\* a pattern that is a fixed sequence of words
PhraseEnd(ws, phrase) ==
    IF Len(ws) < Len(phrase) THEN 0
    ELSE IF \A k \in 1..Len(phrase) : ToLower(ws[k]) = ToLower(phrase[k])
         THEN Len(phrase)
         ELSE 0

\* a statusPattern is [kind |-> "upto", last |-> w] or
\* [kind |-> "phrase", phrase |-> ws]; MatchEnd is the number of words of the
\* match that starts with the first word of ws, 0 if there is none
MatchEnd(ws, pattern) ==
    IF pattern.kind = "upto" THEN UpToEnd(ws, pattern.last)
    ELSE PhraseEnd(ws, pattern.phrase)

\* re.ReplaceAllString(cleaned, "") for a statusPattern. The pattern starts
\* and ends with \s*, so the white space on both sides of a match goes with
\* it: the word before the match and the word after it become one word
RECURSIVE RemoveMatches(_, _)
RemoveMatches(words, pattern) ==
    IF words = <<>> THEN <<>>
    ELSE IF MatchEnd(words, pattern) > 0
         THEN RemoveMatches(SubSeq(words, MatchEnd(words, pattern) + 1, Len(words)), pattern)
    ELSE IF MatchEnd(Tail(words), pattern) > 0
         THEN LET after == SubSeq(Tail(words), MatchEnd(Tail(words), pattern) + 1,
                                  Len(words) - 1)
              IN  IF after = <<>> THEN <<Head(words)>>
                  ELSE RemoveMatches(<<Head(words) \o Head(after)>> \o Tail(after), pattern)
    ELSE <<Head(words)>> \o RemoveMatches(Tail(words), pattern)

RemoveUpTo(words, last) == RemoveMatches(words, [kind |-> "upto", last |-> last])

RemovePhrase(words, phrase) == RemoveMatches(words, [kind |-> "phrase", phrase |-> phrase])

\* the three statusPatterns, in order
RemoveStatus(words) ==
    LET first  == RemoveUpTo(words, "react")
        second == RemovePhrase(first, <<StatusPrefix, "Canary">>)
    IN  RemovePhrase(second, <<StatusPrefix, "Experimental", "version", "of", "React">>)

\* a brandingPattern `\s*sep\s*brand\s*$`
StripBrand(words, sep, brand) ==
    IF /\ Len(words) >= 2
       /\ ToLower(words[Len(words)]) = brand
       /\ words[Len(words) - 1] = sep
    THEN SubSeq(words, 1, Len(words) - 2)
    ELSE words

\* a brandingPattern `\s*\|\s*.*brand\s*$`: from the first "|" on
StripFromBar(words, brand) ==
    IF /\ Len(words) >= 2
       /\ ToLower(words[Len(words)]) = brand
       /\ \E k \in 1..(Len(words) - 1) : words[k] = "|"
    THEN LET k == CHOOSE k \in 1..(Len(words) - 1) :
                     words[k] = "|" /\ \A i \in 1..(k - 1) : words[i] # "|"
         IN  SubSeq(words, 1, k - 1)
    ELSE words

\* the eight brandingPatterns, in order
RemoveBranding(words) ==
    LET r1 == StripBrand(words, EnDash, "react")
        r2 == StripBrand(r1, "-", "react")
        r3 == StripBrand(r2, "|", "react")
        s1 == StripBrand(r3, EnDash, "stripe")
        s2 == StripBrand(s1, "-", "stripe")
        s3 == StripBrand(s2, "|", "stripe")
        d1 == StripFromBar(s3, "documentation")
    IN  StripFromBar(d1, "docs")

cleanTitle(title) == DedupWords(RemoveBranding(RemoveStatus(title)))

extractTitle(i) ==
    LET selected == IF config.TitleSelector # "" THEN SelectorText(i) ELSE <<>>
    IN  IF selected # <<>> THEN cleanTitle(selected)
        ELSE IF TitleText(i) # <<>> THEN cleanTitle(TitleText(i))
        ELSE <<"Untitled">>

\* strings.TrimSpace(html) == ""
IsBlankNever(html) == FALSE

IsBlank(html) == html \in {"", " ", "\n", "\t"}

\* strings.Join(contentParts, "\n\n")
RECURSIVE JoinParts(_)
JoinParts(parts) ==
    IF parts = <<>> THEN ""
    ELSE IF Len(parts) = 1 THEN parts[1]
    ELSE parts[1] \o "\n\n" \o JoinParts(Tail(parts))

\* extractContent: the HTML of the matched elements that are not blank
extractContent(i) == JoinParts(SelectSeq(BodyOf(i), LAMBDA html : ~IsBlank(html)))

----------------------------------------------------------------------------
(* Crawl scheduler: the page handler *)

Top(st) == st[Len(st)]
Pop(st) == SubSeq(st, 1, Len(st) - 1)

\* the depth test that guards findAndFollowLinks
FollowsLinksAtMaxDepth(depth) == depth <= config.MaxDepth

FollowsLinks(depth) == depth < config.MaxDepth

\* LoadOrStore never finding the URL stored
AlreadyVisitedNever(url) == FALSE

\* s.visitedURLs.LoadOrStore(currentURL, true) found the URL stored (loaded);
\* otherwise it has stored it
AlreadyVisited(url) == url \in visitedURLs

\* handleHTML for page i fetched at the given depth. `base` is the handler
\* stack of the caller; when the page's links are to be followed its frame is
\* pushed, and findAndFollowLinks runs in the steps that follow.
handleHTML(i, depth, base) ==
    LET currentURL == URLOf(i)
        title      == extractTitle(i)
        content    == extractContent(i)
        conv       == ConvertToMarkdown(NewPage(currentURL, title, content, depth))
    IN  IF ~isAllowedDomain(currentURL)
        THEN /\ stack' = base
             /\ UNCHANGED <<visitedURLs, pageCount, aggVars>>
        ELSE IF AlreadyVisited(currentURL)
        THEN /\ stack' = base
             /\ UNCHANGED <<visitedURLs, pageCount, aggVars>>
        ELSE /\ visitedURLs' = visitedURLs \cup {currentURL}
             /\ IF content = "" \/ conv.err
                THEN /\ stack' = base
                     /\ UNCHANGED <<pageCount, aggVars>>
                ELSE /\ AddPage(currentURL, title, conv.markdown, depth)
                     /\ pageCount' = pageCount + 1
                     /\ stack' = IF FollowsLinks(depth)
                                 THEN Append(base, [page |-> i, depth |-> depth, next |-> 1])
                                 ELSE base

\* the collector's IgnoreRobotsTxt field: createCollector passes only
\* colly.UserAgent to colly.NewCollector, whose default is true, and does not
\* read Security.RespectRobots
IgnoreRobotsTxt == TRUE

\* the site's robots.txt disallows /docs/b
Disallowed(i) == i = 3

\* the collector's robots.txt check before a request is sent
RobotsAllow(i) == IgnoreRobotsTxt \/ ~Disallowed(i)

\* fetch failures the environment may produce in a run: MaxFailures, or a
\* whole retry budget if that is more
FailureBudget == IF maxRetries > MaxFailures THEN maxRetries ELSE MaxFailures

\* the environment lets a fetch fail (network or HTTP error)
MayFail == failures < FailureBudget

\* collector.Visit returning as soon as the request is queued, as a
\* collector built with colly.Async would
VisitReturnedEarly(st) == TRUE

\* collector.Visit of a seed returns: the collector is synchronous, so the
\* fetch, the page handler and every Request.Visit nested in it have returned
VisitReturned(st) == st = <<>>

\* page i is handed to the collector: by the seed loop (from = 0) or by the
\* handler of page `from`, which runs at depth fromDepth
Logged(i, kind, from, fromDepth, ok) ==
    Append(fetchLog, [page |-> i, kind |-> kind, from |-> from,
                      fromDepth |-> fromDepth, ok |-> ok])

\* the guards of findAndFollowLinks before Request.Visit
Admits(absoluteURL) ==
    /\ shouldFollow(absoluteURL)
    /\ isAllowedDomain(absoluteURL)
    /\ absoluteURL \notin visitedURLs

----------------------------------------------------------------------------
(* Crawl scheduler: visitWithRetry and the worker goroutine of RunWithContext *)

\* time.Duration(math.Pow(2, float64(i))) * DefaultBackoffBase, capped
BackoffUncapped(i) == (2 ^ i) * DefaultBackoffBase

Backoff(i) ==
    IF (2 ^ i) * DefaultBackoffBase > MaxBackoffDelay
    THEN MaxBackoffDelay
    ELSE (2 ^ i) * DefaultBackoffBase

\* the loop condition of visitWithRetry
LoopContinuesOffByOne == attempt <= maxRetries

LoopContinues == attempt < maxRetries

\* the seed loop goes on after a seed that failed all its attempts
AfterFailedSeedBreak == Len(config.StartURLs) + 1

AfterFailedSeed == seedIdx + 1

SeedPage == config.StartURLs[seedIdx]

\* the goroutine returning without a send: only the deferred close(done) runs
CloseWithoutSend(v) ==
    /\ doneClosed' = TRUE
    /\ sentAfterCtx' = (ctxErr # "none")
    /\ workerPC' = "exit"
    /\ UNCHANGED done

\* done <- v; the deferred close(done) runs as the goroutine returns
Deliver(v) ==
    /\ Len(done) < 1
    /\ done' = Append(done, v)
    /\ doneClosed' = TRUE
    /\ sentAfterCtx' = (ctxErr # "none")
    /\ workerPC' = "exit"

\* loop head, case <-timeoutCtx.Done()
WorkerSeedCancelled ==
    /\ workerPC = "seedLoop"
    /\ seedIdx <= Len(config.StartURLs)
    /\ ctxErr # "none"
    /\ Deliver(ctxErr)
    /\ UNCHANGED <<config, maxRetries, aggVars, callVars, filterVars, genVars, runVars, unitVars, visitedURLs, pageCount,
                   ctxErr, mainPC, result, seedIdx, attempt, allErrors, stack,
                   sleeps, failures, outputFile, fetchLog, ctxAtReturn>>

\* loop head, default case: enter visitWithRetry(startURL, DefaultMaxRetries)
WorkerNextSeed ==
    /\ workerPC = "seedLoop"
    /\ seedIdx <= Len(config.StartURLs)
    /\ ctxErr = "none"
    /\ workerPC' = "visit"
    /\ attempt' = 0
    /\ UNCHANGED <<config, maxRetries, aggVars, callVars, filterVars, genVars, runVars, unitVars, visitedURLs, pageCount,
                   ctxErr, done, doneClosed, mainPC, result, seedIdx, allErrors,
                   stack, sleeps, failures, outputFile, fetchLog, sentAfterCtx,
                   ctxAtReturn>>

\* collector.Visit(url) returns an error in iteration `attempt`: lastErr is
\* set, the backoff is slept unless this was the last attempt, continue
VisitSeedFails ==
    /\ workerPC = "visit"
    /\ LoopContinues
    /\ MayFail
    /\ failures' = failures + 1
    /\ fetchLog' = Logged(SeedPage, "seed", 0, 0, FALSE)
    /\ sleeps' = IF attempt < maxRetries - 1
                 THEN Append(sleeps, [seed |-> seedIdx, secs |-> Backoff(attempt)])
                 ELSE sleeps
    /\ attempt' = attempt + 1
    /\ UNCHANGED <<config, maxRetries, aggVars, callVars, filterVars, genVars, runVars, unitVars, visitedURLs,
                   pageCount, ctxErr, done, doneClosed, mainPC, result, workerPC,
                   seedIdx, allErrors, stack, outputFile, sentAfterCtx, ctxAtReturn>>

\* the loop of visitWithRetry ends: "failed after %d retries" is returned and
\* the worker appends it to allErrors
VisitSeedGivesUp ==
    /\ workerPC = "visit"
    /\ ~LoopContinues
    /\ allErrors' = Append(allErrors, seedIdx)
    /\ seedIdx' = AfterFailedSeed
    /\ workerPC' = "seedLoop"
    /\ UNCHANGED <<config, maxRetries, aggVars, callVars, filterVars, genVars, runVars, unitVars, visitedURLs,
                   pageCount, ctxErr, done, doneClosed, mainPC, result, attempt,
                   stack, sleeps, failures, outputFile, fetchLog, sentAfterCtx,
                   ctxAtReturn>>

\* collector.Visit(url) fetches the seed and runs the page handler
VisitSeedSucceeds ==
    /\ workerPC = "visit"
    /\ LoopContinues
    /\ RobotsAllow(SeedPage)
    /\ fetchLog' = Logged(SeedPage, "seed", 0, 0, TRUE)
    /\ handleHTML(SeedPage, SeedDepth, <<>>)
    /\ IF VisitReturned(stack')
       THEN /\ workerPC' = "seedLoop"      \* Visit and visitWithRetry return nil
            /\ seedIdx' = seedIdx + 1
       ELSE /\ workerPC' = "crawl"
            /\ UNCHANGED seedIdx
    /\ UNCHANGED <<config, maxRetries, callVars, filterVars, genVars, runVars, unitVars, ctxErr, done, doneClosed, mainPC,
                   result, attempt, allErrors, sleeps, failures, outputFile,
                   sentAfterCtx, ctxAtReturn>>

Advance(st) == [st EXCEPT ![Len(st)].next = @ + 1]

CurrentLink == LinksOf(Top(stack).page)[Top(stack).next]

InForEach ==
    /\ workerPC = "crawl"
    /\ stack # <<>>
    /\ Top(stack).next <= Len(LinksOf(Top(stack).page))

\* findAndFollowLinks: the anchor is filtered out or already visited
SkipLink ==
    /\ InForEach
    /\ ~Admits(URLOf(CurrentLink))
    /\ stack' = Advance(stack)
    /\ UNCHANGED <<config, maxRetries, aggVars, callVars, filterVars, genVars, runVars, unitVars, visitedURLs, pageCount,
                   ctxErr, done, doneClosed, mainPC, result, workerPC, seedIdx,
                   attempt, allErrors, sleeps, failures, outputFile, fetchLog,
                   sentAfterCtx, ctxAtReturn>>

\* findAndFollowLinks: e.Request.Visit(absoluteURL) returns an error, which
\* is logged as a warning
FollowLinkFails ==
    /\ InForEach
    /\ Admits(URLOf(CurrentLink))
    /\ MayFail
    /\ failures' = failures + 1
    /\ fetchLog' = Logged(CurrentLink, "link", Top(stack).page,
                          Top(stack).depth, FALSE)
    /\ stack' = Advance(stack)
    /\ UNCHANGED <<config, maxRetries, aggVars, callVars, filterVars, genVars, runVars, unitVars, visitedURLs, pageCount,
                   ctxErr, done, doneClosed, mainPC, result, workerPC, seedIdx,
                   attempt, allErrors, sleeps, outputFile, sentAfterCtx,
                   ctxAtReturn>>

\* findAndFollowLinks: e.Request.Visit(absoluteURL) fetches the page and runs
\* the page handler one level deeper
FollowLinkSucceeds ==
    /\ InForEach
    /\ Admits(URLOf(CurrentLink))
    /\ RobotsAllow(CurrentLink)
    /\ fetchLog' = Logged(CurrentLink, "link", Top(stack).page,
                          Top(stack).depth, TRUE)
    /\ handleHTML(CurrentLink, Top(stack).depth + 1, Advance(stack))
    /\ UNCHANGED <<config, maxRetries, callVars, filterVars, genVars, runVars, unitVars, ctxErr, done, doneClosed, mainPC,
                   result, workerPC, seedIdx, attempt, allErrors, sleeps, failures,
                   outputFile, sentAfterCtx, ctxAtReturn>>

\* ForEach is over: handleHTML returns, and with it the Visit that ran it
HandlerReturns ==
    /\ workerPC = "crawl"
    /\ stack # <<>>
    /\ Top(stack).next > Len(LinksOf(Top(stack).page))
    /\ stack' = Pop(stack)
    /\ IF VisitReturned(Pop(stack))
       THEN /\ workerPC' = "seedLoop"      \* visitWithRetry returns nil
            /\ seedIdx' = seedIdx + 1
       ELSE UNCHANGED <<workerPC, seedIdx>>
    /\ UNCHANGED <<config, maxRetries, aggVars, callVars, filterVars, genVars, runVars, unitVars, visitedURLs, pageCount,
                   ctxErr, done, doneClosed, mainPC, result, attempt, allErrors,
                   sleeps, failures, outputFile, fetchLog, sentAfterCtx,
                   ctxAtReturn>>

\* the seed loop is over (scraper.go:467)
AllSeedsFailedBroken == Len(allErrors) > 0

AllSeedsFailed == Len(allErrors) = Len(config.StartURLs)

WorkerAllFailed ==
    /\ workerPC = "seedLoop"
    /\ seedIdx > Len(config.StartURLs)
    /\ AllSeedsFailed
    /\ Deliver("allFailed")
    /\ UNCHANGED <<config, maxRetries, aggVars, callVars, filterVars, genVars, runVars, unitVars, visitedURLs, pageCount,
                   ctxErr, mainPC, result, seedIdx, attempt, allErrors, stack,
                   sleeps, failures, outputFile, fetchLog, ctxAtReturn>>

\* collector.Wait() returns at once (nothing is in flight), GetPageCount
WorkerWait ==
    /\ workerPC = "seedLoop"
    /\ seedIdx > Len(config.StartURLs)
    /\ ~AllSeedsFailed
    /\ workerPC' = "generate"
    /\ UNCHANGED <<config, maxRetries, aggVars, callVars, filterVars, genVars, runVars, unitVars, visitedURLs, pageCount,
                   ctxErr, done, doneClosed, mainPC, result, seedIdx, attempt,
                   allErrors, stack, sleeps, failures, outputFile, fetchLog,
                   sentAfterCtx, ctxAtReturn>>

\* the guard of GenerateOutput
NothingToWriteNever == FALSE

NothingToWrite == Len(pages) = 0

\* GenerateOutput returns "no pages to aggregate"
GenerateNoPages ==
    /\ workerPC = "generate"
    /\ NothingToWrite
    /\ Deliver("noPages")
    /\ UNCHANGED <<config, maxRetries, aggVars, callVars, filterVars, genVars, runVars, unitVars, visitedURLs, pageCount,
                   ctxErr, mainPC, result, seedIdx, attempt, allErrors, stack,
                   sleeps, failures, outputFile, fetchLog, ctxAtReturn>>

\* GenerateOutput sorts the pages; os.Create or WriteString fails
GenerateWriteFails ==
    /\ workerPC = "generate"
    /\ ~NothingToWrite
    /\ pages' = sortPages(pages)
    /\ Deliver("writeFailed")
    /\ UNCHANGED <<config, maxRetries, contentHashes, mu, callVars, filterVars, genVars, runVars, unitVars, visitedURLs,
                   pageCount, ctxErr, mainPC, result, seedIdx, attempt, allErrors,
                   stack, sleeps, failures, outputFile, fetchLog, ctxAtReturn>>

\* GenerateOutput sorts the pages and writes the document; done <- nil
GenerateWrites ==
    /\ workerPC = "generate"
    /\ ~NothingToWrite
    /\ pages' = sortPages(pages)
    /\ outputFile' = WrittenFile(sortPages(pages))
    /\ Deliver("nil")
    /\ UNCHANGED <<config, maxRetries, contentHashes, mu, callVars, filterVars, genVars, runVars, unitVars, visitedURLs,
                   pageCount, ctxErr, mainPC, result, seedIdx, attempt, allErrors,
                   stack, sleeps, failures, fetchLog, ctxAtReturn>>

----------------------------------------------------------------------------
(* RunWithContext: the context and the caller's select *)

\* the scraping timeout fires, or the parent context is cancelled
Expire ==
    /\ ctxErr = "none"
    /\ mainPC = "select"
    /\ \E kind \in {"deadline", "canceled"} : ctxErr' = kind
    /\ UNCHANGED <<config, maxRetries, aggVars, callVars, filterVars, genVars, runVars, unitVars, visitedURLs, pageCount,
                   done, doneClosed, mainPC, result, workerPC, seedIdx, attempt,
                   allErrors, stack, sleeps, failures, outputFile, fetchLog,
                   sentAfterCtx, ctxAtReturn>>

\* return: the deferred cancel() finishes the context
Return(v) ==
    /\ mainPC' = "returned"
    /\ result' = v
    /\ ctxAtReturn' = ctxErr
    /\ ctxErr' = IF ctxErr = "none" THEN "canceled" ELSE ctxErr

\* case err := <-done (a closed, empty channel yields the zero value nil)
MainReceive ==
    /\ mainPC = "select"
    /\ done # <<>> \/ doneClosed
    /\ Return(IF done # <<>> THEN Head(done) ELSE "nil")
    /\ done' = IF done # <<>> THEN Tail(done) ELSE done
    /\ UNCHANGED <<config, maxRetries, aggVars, callVars, filterVars, genVars, runVars, unitVars, visitedURLs, pageCount,
                   doneClosed, workerPC, seedIdx, attempt, allErrors, stack,
                   sleeps, failures, outputFile, fetchLog, sentAfterCtx>>

\* a select without the case <-timeoutCtx.Done()
ContextDoneNever == FALSE

\* <-timeoutCtx.Done() is ready
ContextDone == ctxErr # "none"

\* case <-timeoutCtx.Done(): return timeoutCtx.Err()
MainTimeout ==
    /\ mainPC = "select"
    /\ ContextDone
    /\ Return(ctxErr)
    /\ UNCHANGED <<config, maxRetries, aggVars, callVars, filterVars, genVars, runVars, unitVars, visitedURLs, pageCount,
                   done, doneClosed, workerPC, seedIdx, attempt, allErrors, stack,
                   sleeps, failures, outputFile, fetchLog, sentAfterCtx>>

----------------------------------------------------------------------------
(* Configurations and the specification of one run *)

Cfg(seeds, maxDepth, meta, allowed, follow, ignore) ==
    [StartURLs |-> seeds, MaxDepth |-> maxDepth, IncludeMetadata |-> meta,
     AllowedDomains |-> allowed, FollowPatterns |-> follow,
     IgnorePatterns |-> ignore,
     \* the defaults of processing.generate_toc, security.respect_robots and
     \* selectors.title
     GenerateTOC |-> TRUE, RespectRobots |-> TRUE, TitleSelector |-> ""]

DocsPrefix == [kind |-> "prefix", lit |-> Https(DocsHost, <<"/", "docs">>)]
SuffixA    == [kind |-> "suffix", lit |-> <<"/", "a">>]

\* StartURLs names the seeds by their page of the site; config validation
\* requires at least one seed and max_depth > 0
SeedChoices == {<<1>>, <<1, 2>>, <<5, 1>>}

PatternChoices == {<< <<>>, <<>> >>, << <<DocsPrefix>>, <<SuffixA>> >>}

\* a configuration with a title selector, and one with respect_robots off
ExtraConfigs ==
    { [Cfg(<<1, 2>>, 3, TRUE, <<>>, <<>>, <<>>) EXCEPT !.TitleSelector = "h1"],
      [Cfg(<<1, 2>>, 3, FALSE, <<>>, <<>>, <<>>) EXCEPT !.RespectRobots = FALSE] }

Configs ==
    { Cfg(sd, d, m, al, fg[1], fg[2]) :
        sd \in SeedChoices, d \in 1..MaxDepthBound, m \in BOOLEAN,
        al \in {<<>>, <<DocsHost>>}, fg \in PatternChoices } \cup ExtraConfigs

IdleCallers ==
    [c \in 1..NCallers |->
        [pc |-> "idle", url |-> <<>>, content |-> <<>>, depth |-> 0]]

InitAgg ==
    /\ pages = <<>>
    /\ contentHashes = {}
    /\ mu = 0

InitCrawl ==
    /\ visitedURLs = {}
    /\ pageCount = 0
    /\ ctxErr = "none"
    /\ done = <<>>
    /\ doneClosed = FALSE
    /\ mainPC = "select"
    /\ result = "none"
    /\ workerPC = "seedLoop"
    /\ seedIdx = 1
    /\ attempt = 0
    /\ allErrors = <<>>
    /\ stack = <<>>
    /\ sleeps = <<>>
    /\ failures = 0
    /\ outputFile = NoFile
    /\ fetchLog = <<>>
    /\ sentAfterCtx = FALSE
    /\ ctxAtReturn = "none"

Init ==
    /\ config \in Configs
    /\ maxRetries = DefaultMaxRetries
    /\ InitAgg
    /\ InitCrawl
    /\ callers = IdleCallers
    /\ added = <<>>
    /\ probe = <<>>
    /\ verdict = "none"
    /\ domainVerdict = "none"
    /\ genErr = "none"
    /\ anchor = NoAnchor
    /\ runs = 1
    /\ cleaned = NoTitle
    /\ newErr = "none"

Next ==
    \/ WorkerSeedCancelled
    \/ WorkerNextSeed
    \/ VisitSeedFails
    \/ VisitSeedGivesUp
    \/ VisitSeedSucceeds
    \/ SkipLink
    \/ FollowLinkFails
    \/ FollowLinkSucceeds
    \/ HandlerReturns
    \/ WorkerAllFailed
    \/ WorkerWait
    \/ GenerateNoPages
    \/ GenerateWriteFails
    \/ GenerateWrites
    \/ Expire
    \/ MainReceive
    \/ MainTimeout

Spec == Init /\ [][Next]_vars

\* The run with the scheduling the claims about termination rely on: the
\* timer of context.WithTimeout fires after a finite time, and the goroutine
\* that called RunWithContext takes a case of its select that is ready. The
\* worker goroutine gets no fairness: a fetch may never complete.
LiveConfigs == { c \in Configs : c.MaxDepth = 2 /\ ~c.IncludeMetadata }

InitLive ==
    /\ Init
    /\ config \in LiveConfigs

SpecLive ==
    /\ InitLive
    /\ [][Next]_vars
    /\ WF_vars(Expire)
    /\ WF_vars(MainReceive)
    /\ WF_vars(MainTimeout)

----------------------------------------------------------------------------
(* RunWithContext called again on the same Scraper once the previous call  *)
(* has returned and its goroutine has ended. New builds the collector, the  *)
(* Aggregator, visitedURLs and pageCount; RunWithContext makes a new        *)
(* context, a new done channel and a new allErrors, and nothing else.       *)

RunAgain ==
    /\ mainPC = "returned"
    /\ workerPC = "exit"
    /\ runs < MaxRuns
    /\ runs' = runs + 1
    /\ ctxErr' = "none"
    /\ done' = <<>>
    /\ doneClosed' = FALSE
    /\ mainPC' = "select"
    /\ result' = "none"
    /\ workerPC' = "seedLoop"
    /\ seedIdx' = 1
    /\ attempt' = 0
    /\ allErrors' = <<>>
    /\ stack' = <<>>
    \* what is observed of a run starts afresh with it
    /\ sleeps' = <<>>
    /\ failures' = 0
    /\ fetchLog' = <<>>
    /\ sentAfterCtx' = FALSE
    /\ ctxAtReturn' = "none"
    /\ UNCHANGED <<config, maxRetries, aggVars, callVars, filterVars, genVars,
                   visitedURLs, pageCount, outputFile, unitVars>>

RerunConfigs == LiveConfigs

InitRerun ==
    /\ config \in RerunConfigs
    /\ maxRetries = DefaultMaxRetries
    /\ InitAgg
    /\ InitCrawl
    /\ callers = IdleCallers
    /\ added = <<>>
    /\ probe = <<>>
    /\ verdict = "none"
    /\ domainVerdict = "none"
    /\ genErr = "none"
    /\ anchor = NoAnchor
    /\ runs = 1
    /\ cleaned = NoTitle
    /\ newErr = "none"

NextRerun ==
    \/ Next
    \/ RunAgain

SpecRerun == InitRerun /\ [][NextRerun]_vars

----------------------------------------------------------------------------
(* New(cfg) followed, if it returned a Scraper, by one run. A pattern of    *)
(* the configuration that regexp.Compile rejects is                         *)
(* [kind |-> "invalid", lit |-> t].                                         *)

InvalidRegex == [kind |-> "invalid", lit |-> <<"[invalid regex">>]

\* regexp.Compile(pattern) returns no error
Compiles(pattern) == pattern.kind # "invalid"

\* compilePatterns: the follow patterns are compiled first, then the ignore
\* patterns; the first failure is returned
compilePatterns ==
    IF \E k \in 1..Len(config.FollowPatterns) : ~Compiles(config.FollowPatterns[k])
    THEN "invalid follow pattern"
    ELSE IF \E k \in 1..Len(config.IgnorePatterns) : ~Compiles(config.IgnorePatterns[k])
    THEN "invalid ignore pattern"
    ELSE "nil"

\* New going on after compilePatterns whatever it returned
CompileFailedIgnored(err) == FALSE

\* if err := s.compilePatterns(); err != nil
CompileFailed(err) == err # "nil"

\* New(cfg): the error of compilePatterns, wrapped, with a nil Scraper, or the
\* Scraper (converter.New and aggregator.New return no error)
ScraperNew ==
    /\ newErr = "none"
    /\ newErr' = IF CompileFailed(compilePatterns) THEN compilePatterns ELSE "nil"
    /\ UNCHANGED <<config, maxRetries, aggVars, callVars, crawlVars, filterVars, genVars,
                   runVars, cleaned>>

InvalidPatternLists ==
    { <<InvalidRegex>>, <<DocsPrefix, InvalidRegex>>, <<InvalidRegex, SuffixA>> }

ValidPatternLists == { <<>>, <<DocsPrefix>>, <<SuffixA>> }

\* configurations with an invalid follow pattern, an invalid ignore pattern or
\* both
InvalidConfigs ==
    { Cfg(<<1>>, 2, FALSE, <<>>, f, g) :
        f \in InvalidPatternLists, g \in ValidPatternLists \cup InvalidPatternLists }
    \cup { Cfg(<<1>>, 2, FALSE, <<>>, f, g) :
        f \in ValidPatternLists, g \in InvalidPatternLists }

NewConfigs == RerunConfigs \cup InvalidConfigs

InitNew ==
    /\ config \in NewConfigs
    /\ maxRetries = DefaultMaxRetries
    /\ InitAgg
    /\ InitCrawl
    /\ callers = IdleCallers
    /\ added = <<>>
    /\ probe = <<>>
    /\ verdict = "none"
    /\ domainVerdict = "none"
    /\ genErr = "none"
    /\ anchor = NoAnchor
    /\ runs = 1
    /\ cleaned = NoTitle
    /\ newErr = "none"

\* Run is a method of the Scraper New returned
RunScraper ==
    /\ newErr = "nil"
    /\ Next

NextNew ==
    \/ ScraperNew
    \/ RunScraper

SpecNew == InitNew /\ [][NextNew]_vars

----------------------------------------------------------------------------
(* AddPage called from several goroutines: each source line of AddPage is  *)
(* one step, and the steps of different callers interleave.                *)

Callers == 1..NCallers

CallURLs == {URLOf(1), URLOf(2)}
CallContents == {<<"md-A">>, <<"md-B">>}
CallTitle == <<"T">>

\* calls started so far, and how many the callers make in all
CallsMade == Len(added) + Cardinality({c \in Callers : callers[c].pc # "idle"})
MaxCalls == NCallers + 1

\* a goroutine calls AddPage(url, title, content, depth)
CallAddPage(c) ==
    /\ callers[c].pc = "idle"
    /\ CallsMade < MaxCalls
    /\ \E u \in CallURLs, m \in CallContents :
          callers' = [callers EXCEPT ![c] =
                         [pc |-> "lock", url |-> u, content |-> m,
                          depth |-> SeedDepth]]
    /\ UNCHANGED <<config, maxRetries, aggVars, added, crawlVars, filterVars, genVars, runVars, unitVars>>

\* a.mu.Lock()
AddPageLock(c) ==
    /\ callers[c].pc = "lock"
    /\ CanLock(c)
    /\ mu' = c
    /\ callers' = [callers EXCEPT ![c].pc = "check"]
    /\ UNCHANGED <<config, maxRetries, pages, contentHashes, added, crawlVars, filterVars, genVars, runVars, unitVars>>

\* if a.contentHashes[contentHash] { return }
AddPageCheck(c) ==
    /\ callers[c].pc = "check"
    /\ callers' = [callers EXCEPT ![c].pc =
                      IF IsDuplicate(callers[c].content) THEN "unlock" ELSE "append"]
    /\ UNCHANGED <<config, maxRetries, aggVars, added, crawlVars, filterVars, genVars, runVars, unitVars>>

\* a.pages = append(a.pages, page)
AddPageAppend(c) ==
    /\ callers[c].pc = "append"
    /\ pages' = Append(pages, NewPage(callers[c].url, CallTitle,
                                      callers[c].content, callers[c].depth))
    /\ callers' = [callers EXCEPT ![c].pc = "store"]
    /\ UNCHANGED <<config, maxRetries, contentHashes, mu, added, crawlVars, filterVars, genVars, runVars, unitVars>>

\* a.contentHashes[contentHash] = true
AddPageStore(c) ==
    /\ callers[c].pc = "store"
    /\ contentHashes' = contentHashes \cup {Sha256(callers[c].content)}
    /\ callers' = [callers EXCEPT ![c].pc = "unlock"]
    /\ UNCHANGED <<config, maxRetries, pages, mu, added, crawlVars, filterVars, genVars, runVars, unitVars>>

\* the deferred a.mu.Unlock(); AddPage returns
AddPageUnlock(c) ==
    /\ callers[c].pc = "unlock"
    /\ mu' = 0
    /\ callers' = [callers EXCEPT ![c].pc = "idle"]
    /\ added' = Append(added, callers[c].content)
    /\ UNCHANGED <<config, maxRetries, pages, contentHashes, crawlVars, filterVars, genVars, runVars, unitVars>>

InitCallers ==
    /\ config \in {Cfg(<<1>>, 2, FALSE, <<>>, <<>>, <<>>)}
    /\ maxRetries = DefaultMaxRetries
    /\ InitAgg
    /\ InitCrawl
    /\ callers = IdleCallers
    /\ added = <<>>
    /\ probe = <<>>
    /\ verdict = "none"
    /\ domainVerdict = "none"
    /\ genErr = "none"
    /\ anchor = NoAnchor
    /\ runs = 1
    /\ cleaned = NoTitle
    /\ newErr = "none"

NextCallers ==
    \E c \in Callers :
        \/ CallAddPage(c)
        \/ AddPageLock(c)
        \/ AddPageCheck(c)
        \/ AddPageAppend(c)
        \/ AddPageStore(c)
        \/ AddPageUnlock(c)

SpecCallers == InitCallers /\ [][NextCallers]_vars

----------------------------------------------------------------------------
(* The link filter applied to one URL under one configuration *)

FilterPatternLists == {<<>>, <<DocsPrefix>>, <<SuffixA>>, <<SuffixA, DocsPrefix>>}

FilterConfigs ==
    { Cfg(<<1>>, 2, FALSE, <<>>, f, g) : f \in FilterPatternLists, g \in FilterPatternLists }

\* the blog post URL of TestIsPrivacyOrLegalURL
BlogPostURL == Https(DocsHost, <<"/", "blog", "/", "post">>)

BloggingGuideURL == Https(DocsHost, <<"/", "blogging-guide">>)

ProbeURLs ==
    { Https(DocsHost, <<"/", "docs">>),
      Https(DocsHost, <<"/", "docs", "/", "a">>),
      Https(DocsHost, <<"/", "docs", "/", "b">>),
      Https(DocsHost, <<"/", "docs", "/", "Privacy">>),
      Https(DocsHost, <<"/", "docs", "/", "terms", "/", "a">>),
      Https(DocsHost, <<"/", "Privacy">>),
      Https(DocsHost, <<"/", "login", "?", "a">>),
      Https(OtherHost, <<"/", "a">>),
      Https(OtherHost, <<"/", "b">>),
      Https(DocsHost, <<"/", "blog">>),
      Https(DocsHost, <<"/", "BLOG">>),
      Https(DocsHost, <<"/", "careers">>),
      BlogPostURL,
      BloggingGuideURL }

ApplyShouldFollow ==
    /\ verdict = "none"
    /\ verdict' = IF shouldFollow(probe) THEN "follow" ELSE "reject"
    /\ UNCHANGED <<config, maxRetries, aggVars, callVars, crawlVars, probe, domainVerdict, genVars, runVars, unitVars>>

InitFilter ==
    /\ config \in FilterConfigs
    /\ maxRetries = DefaultMaxRetries
    /\ probe \in ProbeURLs
    /\ verdict = "none"
    /\ domainVerdict = "none"
    /\ genErr = "none"
    /\ anchor = NoAnchor
    /\ runs = 1
    /\ cleaned = NoTitle
    /\ newErr = "none"
    /\ InitAgg
    /\ InitCrawl
    /\ callers = IdleCallers
    /\ added = <<>>

NextFilter == ApplyShouldFollow

SpecFilter == InitFilter /\ [][NextFilter]_vars

----------------------------------------------------------------------------
(* The domain allow-list applied to one URL under one configuration. A     *)
(* host label may be written as several words ("not", "example"): the      *)
(* string is still the concatenation of its tokens.                        *)

ExampleCom == <<"example", ".", "com">>

DomainLists ==
    { <<>>, <<ExampleCom>>, <<DocsHost>>, <<DocsHost, ExampleCom>>,
      <<ExampleCom, DocsHost>> }

DomainConfigs == { Cfg(<<1>>, 2, FALSE, al, <<>>, <<>>) : al \in DomainLists }

DomainProbeURLs ==
    { Https(ExampleCom, <<"/", "a">>),
      Https(<<"docs", ".">> \o ExampleCom, <<"/", "a">>),
      Https(<<"a", ".", "docs", ".">> \o ExampleCom, <<>>),
      Https(<<"not">> \o ExampleCom, <<"/", "a">>),
      Https(<<"malicious">> \o ExampleCom, <<>>),
      Https(ExampleCom \o <<".", "evil", ".", "io">>, <<"/", "a">>),
      Https(ExampleCom \o <<":", "8080">>, <<"/", "a">>),
      Https(<<"example", ".", "org">>, <<"/", "example", ".", "com">>),
      Https(ExampleCom, <<"/", "%zz">>),
      Https(DocsHost, <<"/", "docs">>),
      Https(OtherHost, <<"?", "a">>),
      <<"/", "docs", "/", "a">> }

ApplyIsAllowedDomain ==
    /\ domainVerdict = "none"
    /\ domainVerdict' = IF isAllowedDomain(probe) THEN "allowed" ELSE "denied"
    /\ UNCHANGED <<config, maxRetries, aggVars, callVars, crawlVars, probe, verdict,
                   genVars, runVars, unitVars>>

InitDomain ==
    /\ config \in DomainConfigs
    /\ maxRetries = DefaultMaxRetries
    /\ probe \in DomainProbeURLs
    /\ verdict = "none"
    /\ domainVerdict = "none"
    /\ genErr = "none"
    /\ anchor = NoAnchor
    /\ runs = 1
    /\ cleaned = NoTitle
    /\ newErr = "none"
    /\ InitAgg
    /\ InitCrawl
    /\ callers = IdleCallers
    /\ added = <<>>

NextDomain == ApplyIsAllowedDomain

SpecDomain == InitDomain /\ [][NextDomain]_vars

----------------------------------------------------------------------------
(* The Aggregator driven directly, as its tests drive it: AddPage calls in *)
(* any order, then one call of GenerateOutput.                             *)

\* url, title and content of the pages a caller may add; the last one repeats
\* the content of the third
AggInputs ==
    << [url |-> Https(ExampleCom, <<"/">>), title |-> <<"Home">>, content |-> <<"md-home">>],
       [url |-> Https(ExampleCom, <<"/", "api">>), title |-> <<"API">>, content |-> <<"md-api">>],
       [url |-> Https(ExampleCom, <<"/", "page1">>), title |-> <<"Page", "1">>, content |-> <<"md-1">>],
       [url |-> Https(ExampleCom, <<"/", "page2">>), title |-> <<>>, content |-> <<"md-2">>],
       [url |-> Https(ExampleCom, <<"/", "page1", "/">>), title |-> <<"Untitled">>, content |-> <<"md-1">>] >>

\* depths the callers pass: the two of TestGenerateOutput and one past the
\* deepest heading level
AggDepths == {0, 1, 6}

AggConfigs ==
    { [Cfg(<<1>>, 2, m, <<>>, <<>>, <<>>) EXCEPT !.GenerateTOC = toc] :
        m \in BOOLEAN, toc \in BOOLEAN }

\* inputs already handed to AddPage, by index
CalledInputs == {added[k].input : k \in 1..Len(added)}

\* agg.AddPage(url, title, content, depth) for an input not added before
AggAddPage ==
    /\ genErr = "none"
    /\ \E k \in (1..Len(AggInputs)) \ CalledInputs, d \in AggDepths :
          /\ AddPage(AggInputs[k].url, AggInputs[k].title, AggInputs[k].content, d)
          /\ added' = Append(added, [input |-> k, depth |-> d])
    /\ UNCHANGED <<config, maxRetries, callers, crawlVars, filterVars, genVars, runVars, unitVars>>

\* agg.GenerateOutput() returns "no pages to aggregate"
AggGenerateNoPages ==
    /\ genErr = "none"
    /\ NothingToWrite
    /\ genErr' = "noPages"
    /\ UNCHANGED <<config, maxRetries, aggVars, callVars, crawlVars, filterVars, anchor, runVars, unitVars>>

\* agg.GenerateOutput() sorts the pages; writeToFile returns an error
AggGenerateWriteFails ==
    /\ genErr = "none"
    /\ ~NothingToWrite
    /\ pages' = sortPages(pages)
    /\ genErr' = "writeFailed"
    /\ UNCHANGED <<config, maxRetries, contentHashes, mu, callVars, crawlVars, filterVars, anchor, runVars, unitVars>>

\* agg.GenerateOutput() sorts the pages and writes the document
AggGenerateWrites ==
    /\ genErr = "none"
    /\ ~NothingToWrite
    /\ pages' = sortPages(pages)
    /\ outputFile' = WrittenFile(sortPages(pages))
    /\ genErr' = "nil"
    /\ UNCHANGED <<config, maxRetries, contentHashes, mu, callVars, visitedURLs, pageCount,
                   ctxErr, done, doneClosed, mainPC, result, workerPC, seedIdx, attempt,
                   allErrors, stack, sleeps, failures, fetchLog, sentAfterCtx, ctxAtReturn,
                   filterVars, anchor, runVars, unitVars>>

InitAggregator ==
    /\ config \in AggConfigs
    /\ maxRetries = DefaultMaxRetries
    /\ InitAgg
    /\ InitCrawl
    /\ callers = IdleCallers
    /\ added = <<>>
    /\ probe = <<>>
    /\ verdict = "none"
    /\ domainVerdict = "none"
    /\ genErr = "none"
    /\ anchor = NoAnchor
    /\ runs = 1
    /\ cleaned = NoTitle
    /\ newErr = "none"

NextAggregator ==
    \/ AggAddPage
    \/ AggGenerateNoPages
    \/ AggGenerateWriteFails
    \/ AggGenerateWrites

SpecAggregator == InitAggregator /\ [][NextAggregator]_vars

----------------------------------------------------------------------------
(* createAnchor applied to one title *)

\* the tokens of the titles: words, the space, the hyphen, punctuation that
\* createAnchor lists and punctuation that it does not
AnchorAlphabet == {"What", "a", " ", "-", "?", "(", "_", EnDash}

RECURSIVE TitlesOfLength(_)
TitlesOfLength(n) ==
    IF n = 0 THEN {<<>>}
    ELSE { Append(t, c) : t \in TitlesOfLength(n - 1), c \in AnchorAlphabet }

\* the titles of TestCreateAnchor
WhatIsReact ==
    <<"What", " ", "is", " ", "React", "?", " ", "(", "A", " ", "Guide", ")">>

TestTitles ==
    { <<"Simple", " ", "Title">>,
      <<"API", " ", "Reference", ":", " ", "useState", "(", ")", " ", "Hook">>,
      <<"Complex", " ", "-", "-", " ", "Title", " ", " ", " ", "With", " ", " ", " ", " ", "Spaces">>,
      WhatIsReact }

AnchorTitles == UNION { TitlesOfLength(n) : n \in 0..MaxTitleLen } \cup TestTitles

ApplyCreateAnchor ==
    /\ ~anchor.called
    /\ anchor' = [called |-> TRUE, value |-> createAnchor(probe)]
    /\ UNCHANGED <<config, maxRetries, aggVars, callVars, crawlVars, filterVars, genErr,
                   runVars, unitVars>>

InitAnchor ==
    /\ config \in {Cfg(<<1>>, 2, FALSE, <<>>, <<>>, <<>>)}
    /\ maxRetries = DefaultMaxRetries
    /\ probe \in AnchorTitles
    /\ verdict = "none"
    /\ domainVerdict = "none"
    /\ genErr = "none"
    /\ anchor = NoAnchor
    /\ runs = 1
    /\ cleaned = NoTitle
    /\ newErr = "none"
    /\ InitAgg
    /\ InitCrawl
    /\ callers = IdleCallers
    /\ added = <<>>

NextAnchor == ApplyCreateAnchor

SpecAnchor == InitAnchor /\ [][NextAnchor]_vars

----------------------------------------------------------------------------
(* cleanTitle applied to one title *)

\* the words of the titles: a word in two spellings, a brand, the separator
\* of the branding patterns and the start of the status patterns
TitleAlphabet == {"API", "api", "Docs", "React", "|", StatusPrefix}

RECURSIVE WordsOfLength(_)
WordsOfLength(n) ==
    IF n = 0 THEN {<<>>}
    ELSE { Append(t, w) : t \in WordsOfLength(n - 1), w \in TitleAlphabet }

ApiApiDocumentation == <<"API", "API", "Documentation">>

\* the titles of TestCleanTitle
CleanTitleTests ==
    { <<"useState", EnDash, "React">>,
      <<"Balance", EnDash, "Stripe">>,
      ApiApiDocumentation,
      <<"useEffect", EnDash, "React", StatusPrefix, "Experimental", "version", "of", "React">>,
      <<"Simple", "Title">> }

CleanTitleInputs == UNION { WordsOfLength(n) : n \in 0..MaxTitleLen } \cup CleanTitleTests

ApplyCleanTitle ==
    /\ ~cleaned.called
    /\ cleaned' = [called |-> TRUE, value |-> cleanTitle(probe)]
    /\ UNCHANGED <<config, maxRetries, aggVars, callVars, crawlVars, filterVars, genVars,
                   runVars, newErr>>

InitTitle ==
    /\ config \in {Cfg(<<1>>, 2, FALSE, <<>>, <<>>, <<>>)}
    /\ maxRetries = DefaultMaxRetries
    /\ probe \in CleanTitleInputs
    /\ verdict = "none"
    /\ domainVerdict = "none"
    /\ genErr = "none"
    /\ anchor = NoAnchor
    /\ runs = 1
    /\ cleaned = NoTitle
    /\ newErr = "none"
    /\ InitAgg
    /\ InitCrawl
    /\ callers = IdleCallers
    /\ added = <<>>

NextTitle == ApplyCleanTitle

SpecTitle == InitTitle /\ [][NextTitle]_vars

----------------------------------------------------------------------------
(* visitWithRetry called with maxRetries = 1 .. DefaultMaxRetries on the   *)
(* seeds of a configuration, outside any deadline                          *)

InitRetry ==
    /\ config \in Configs
    /\ maxRetries \in 1..DefaultMaxRetries
    /\ InitAgg
    /\ InitCrawl
    /\ callers = IdleCallers
    /\ added = <<>>
    /\ probe = <<>>
    /\ verdict = "none"
    /\ domainVerdict = "none"
    /\ genErr = "none"
    /\ anchor = NoAnchor
    /\ runs = 1
    /\ cleaned = NoTitle
    /\ newErr = "none"

NextRetry ==
    \/ WorkerNextSeed
    \/ VisitSeedFails
    \/ VisitSeedGivesUp
    \/ VisitSeedSucceeds
    \/ SkipLink
    \/ FollowLinkFails
    \/ FollowLinkSucceeds
    \/ HandlerReturns

SpecRetry == InitRetry /\ [][NextRetry]_vars

----------------------------------------------------------------------------
(* visitWithRetry called with maxRetries = 1 .. MaxRetriesBound on a seed  *)
(* that may fail every attempt                                             *)

BackoffConfigs == { c \in Configs : c.StartURLs = <<1, 2>> /\ c.AllowedDomains = <<>> }

InitBackoff ==
    /\ config \in BackoffConfigs
    /\ maxRetries \in 1..MaxRetriesBound
    /\ InitAgg
    /\ InitCrawl
    /\ callers = IdleCallers
    /\ added = <<>>
    /\ probe = <<>>
    /\ verdict = "none"
    /\ domainVerdict = "none"
    /\ genErr = "none"
    /\ anchor = NoAnchor
    /\ runs = 1
    /\ cleaned = NoTitle
    /\ newErr = "none"

SpecBackoff == InitBackoff /\ [][NextRetry]_vars

----------------------------------------------------------------------------
(* Properties *)

SeqToSet(q) == {q[k] : k \in 1..Len(q)}

IsSeedEntry(e, s) == e.kind = "seed" /\ e.page = config.StartURLs[s]

\* the calls of collector.Visit made for seed s, in order
SeedAttempts(s) == SelectSeq(fetchLog, LAMBDA e : IsSeedEntry(e, s))

Seeds == 1..Len(config.StartURLs)

\* C1: under any interleaving of AddPage calls no two retained pages have the
\* same content, and whenever no call is inside AddPage, GetPageCount is the
\* number of distinct contents of the calls that have returned
AddPageKeepsOnePagePerContent ==
    /\ \A i, j \in 1..Len(pages) : i # j => pages[i].Content # pages[j].Content
    /\ mu = 0 => GetPageCount = Cardinality(SeqToSet(added))

\* three calls have returned, one of them with a content already retained
AddPageDroppedDuplicate ==
    /\ mu = 0
    /\ Len(added) = 3
    /\ GetPageCount = 2
    /\ pages[1].URL # pages[2].URL

\* C2: a URL discovered on two pages is submitted to the fetch collaborator
\* by link discovery exactly once in a run: no two submissions made from the
\* handlers of different pages name the same URL
LinkSubmittedAtMostOnce ==
    \A a, b \in 1..Len(fetchLog) :
        (/\ a # b
         /\ fetchLog[a].kind = "link"
         /\ fetchLog[b].kind = "link"
         /\ fetchLog[a].from # fetchLog[b].from)
            => fetchLog[a].page # fetchLog[b].page

\* C3: visitWithRetry stops at the first attempt that succeeds and gives up
\* after exactly maxRetries failed attempts: every attempt but the last one
\* of a seed failed, a seed is reported failed iff all maxRetries attempts
\* failed, and no seed gets more than maxRetries attempts
RetryUntilSuccessOrBudget ==
    \A s \in Seeds :
        LET att == SeedAttempts(s) IN
        /\ Len(att) <= maxRetries
        /\ \A k \in 1..(Len(att) - 1) : ~att[k].ok
        /\ s < seedIdx =>
              /\ Len(att) >= 1
              /\ (s \in SeqToSet(allErrors)) = ~att[Len(att)].ok
              /\ (s \in SeqToSet(allErrors)) => Len(att) = maxRetries
        /\ (s = seedIdx /\ workerPC = "visit") =>
              /\ Len(att) = attempt
              /\ \A k \in 1..Len(att) : ~att[k].ok

\* visitWithRetry(url, 3) has returned nil after fail, fail, succeed
RetrySucceededOnThirdAttempt ==
    /\ maxRetries = 3
    /\ seedIdx > 1
    /\ allErrors = <<>>
    /\ Len(SeedAttempts(1)) = 3
    /\ SeedAttempts(1)[3].ok

CtxErrors == {"deadline", "canceled"}

\* C4: when the context was done before the worker delivered its result,
\* RunWithContext returns the context's error, whatever has been aggregated
TimeoutReturnsContextError ==
    (/\ mainPC = "returned"
     /\ ctxAtReturn \in CtxErrors
     /\ workerPC = "exit" => sentAfterCtx)
        => result = ctxAtReturn

\* C5: once the context is done no URL is handed to the fetch collaborator
NoFetchAfterContextDone ==
    [][(ctxErr \in CtxErrors) => (fetchLog' = fetchLog)]_vars

\* seed s was given up: maxRetries attempts, all failed
SeedFailed(s) ==
    /\ Len(SeedAttempts(s)) = maxRetries
    /\ \A k \in 1..maxRetries : ~SeedAttempts(s)[k].ok

SeedIndex(e) == CHOOSE s \in Seeds : config.StartURLs[s] = e.page

AllSeedEntries == SelectSeq(fetchLog, LAMBDA e : e.kind = "seed")

\* C6: the seeds are attempted one at a time in configuration order, a seed
\* that failed all its attempts is followed by the attempts of the next seed,
\* and a run whose context is not done when it returns returns "all start
\* URLs failed" iff every seed failed
SeedsInOrderAllFailedIffEveryFailed ==
    /\ \A a, b \in 1..Len(AllSeedEntries) :
          a < b => SeedIndex(AllSeedEntries[a]) <= SeedIndex(AllSeedEntries[b])
    /\ \A s \in Seeds : s < seedIdx => Len(SeedAttempts(s)) >= 1
    /\ \A s \in Seeds : s > seedIdx => Len(SeedAttempts(s)) = 0
    /\ (workerPC = "generate" \/ (workerPC = "exit" /\ ~sentAfterCtx))
          => seedIdx = Len(config.StartURLs) + 1
    /\ (mainPC = "returned" /\ ctxAtReturn = "none")
          => ((result = "allFailed") = (\A s \in Seeds : SeedFailed(s)))

\* the first of two seeds failed all its attempts, the second was fetched,
\* and the run returned without "all start URLs failed"
LaterSeedAttemptedAfterFailedSeed ==
    /\ mainPC = "returned"
    /\ ctxAtReturn = "none"
    /\ Len(config.StartURLs) = 2
    /\ SeedFailed(1)
    /\ Len(SeedAttempts(2)) >= 1
    /\ result # "allFailed"

SomeSeedSucceeded == \E s \in Seeds : \E k \in 1..Len(SeedAttempts(s)) : SeedAttempts(s)[k].ok

\* C7 as stated: a run that does not time out, with a seed that succeeded and
\* a page aggregated, returns nil
PartialFailureReturnsSuccess ==
    (/\ mainPC = "returned"
     /\ ctxAtReturn = "none"
     /\ SomeSeedSucceeded
     /\ GetPageCount >= 1)
        => result = "nil"

\* C7 amended: such a run returns nil, or the output-generation error when
\* writing the output file failed; failed seeds and links never become its
\* result
PartialFailureReturnsSuccessUnlessWriteFails ==
    (/\ mainPC = "returned"
     /\ ctxAtReturn = "none"
     /\ SomeSeedSucceeded
     /\ GetPageCount >= 1)
        => /\ result \in {"nil", "writeFailed"}
           /\ (result = "nil") = outputFile.written

\* a run returned nil although a seed and a link failed
SucceededDespiteFailures ==
    /\ mainPC = "returned"
    /\ ctxAtReturn = "none"
    /\ result = "nil"
    /\ allErrors # <<>>
    /\ \E k \in 1..Len(fetchLog) : fetchLog[k].kind = "link" /\ ~fetchLog[k].ok

\* C8: RunWithContext returns nil only when GenerateOutput has written a
\* document of at least one page; every other return is one of the terminal
\* errors
SuccessOnlyWithDocument ==
    mainPC = "returned" =>
        /\ result \in {"nil", "allFailed", "noPages", "writeFailed"} \cup CtxErrors
        /\ result = "nil" => (outputFile.written /\ Len(outputFile.pages) >= 1)

\* a run returned nil with a document of two pages
ReturnedSuccessWithDocument ==
    /\ mainPC = "returned"
    /\ result = "nil"
    /\ outputFile.written
    /\ Len(outputFile.pages) = 2

\* C9: links are submitted only from the handler of a page whose depth is
\* below the configured max depth
LinksFollowedOnlyBelowMaxDepth ==
    \A k \in 1..Len(fetchLog) :
        fetchLog[k].kind = "link" => fetchLog[k].fromDepth < config.MaxDepth

\* a page at max depth that has anchors was aggregated, the crawl is over,
\* and nothing was submitted from it
PageAtMaxDepthAggregatedNotFollowed ==
    /\ workerPC = "exit"
    /\ \E k \in 1..Len(pages) :
          /\ pages[k].Depth = config.MaxDepth
          /\ \E i \in SiteURLs :
                /\ URLOf(i) = pages[k].URL
                /\ LinksOf(i) # <<>>
                /\ \A e \in 1..Len(fetchLog) : fetchLog[e].from # i

\* C10: shouldFollow decides by the first rule that applies: the built-in
\* heuristic rejects, then an ignore pattern rejects, then with follow
\* patterns configured the URL is accepted iff one matches, else accepted
ShouldFollowFirstRuleWins ==
    verdict # "none" =>
        verdict = (CASE isPrivacyOrLegalURL(probe) -> "reject"
                     [] ~isPrivacyOrLegalURL(probe)
                          /\ MatchesAny(config.IgnorePatterns, probe) -> "reject"
                     [] ~isPrivacyOrLegalURL(probe)
                          /\ ~MatchesAny(config.IgnorePatterns, probe)
                          /\ config.FollowPatterns # <<>> ->
                            IF MatchesAny(config.FollowPatterns, probe)
                            THEN "follow" ELSE "reject"
                     [] OTHER -> "follow")

\* a URL that matches an ignore pattern and a follow pattern, and not the
\* heuristic, was rejected
IgnoredThoughFollowPatternMatches ==
    /\ verdict = "reject"
    /\ ~isPrivacyOrLegalURL(probe)
    /\ MatchesAny(config.IgnorePatterns, probe)
    /\ MatchesAny(config.FollowPatterns, probe)

\* host h is domain d, or a name below it: some suffix of h is d and is the
\* whole of h or follows a "."
HostWithin(h, d) ==
    \E n \in 0..Len(h) :
        /\ SubSeq(h, n + 1, Len(h)) = d
        /\ n = 0 \/ h[n] = "."

\* C11: with a non-empty allow-list isAllowedDomain accepts a URL iff it
\* parses and its host equals an allowed domain or ends with "." and the
\* domain; notexample.com and maliciousexample.com are rejected for
\* example.com; with an empty allow-list every URL is accepted
AllowedIffHostWithinAllowedDomain ==
    domainVerdict # "none" =>
        /\ config.AllowedDomains = <<>> => domainVerdict = "allowed"
        /\ config.AllowedDomains # <<>> =>
              ((domainVerdict = "allowed") =
                  (/\ ~ParseFails(probe)
                   /\ \E k \in 1..Len(config.AllowedDomains) :
                         HostWithin(ParseHost(probe), config.AllowedDomains[k])))
        /\ (/\ config.AllowedDomains = <<ExampleCom>>
            /\ probe \in { Https(<<"not">> \o ExampleCom, <<"/", "a">>),
                           Https(<<"malicious">> \o ExampleCom, <<>>) })
              => domainVerdict = "denied"

\* maliciousexample.com was rejected for the allowed domain example.com
RejectedHostEndingInDomainWithoutDot ==
    /\ config.AllowedDomains = <<ExampleCom>>
    /\ probe = Https(<<"malicious">> \o ExampleCom, <<>>)
    /\ domainVerdict = "denied"

\* p may stand before q in a sequence ordered by depth, then by URL
InDepthURLOrder(p, q) ==
    \/ p.Depth < q.Depth
    \/ p.Depth = q.Depth /\ (p.URL = q.URL \/ StringLess(p.URL, q.URL))

\* the page AddPage builds from call a of the Aggregator's caller
AddedPage(a) ==
    NewPage(AggInputs[a.input].url, AggInputs[a.input].title,
            AggInputs[a.input].content, a.depth)

\* the pages AddPage retained: of each content the first call
RetainedPages ==
    { AddedPage(added[k]) : k \in { n \in 1..Len(added) :
          \A m \in 1..(n - 1) :
              AggInputs[added[m].input].content # AggInputs[added[n].input].content } }

\* C12: after GenerateOutput sorted the pages, the page collection and the
\* pages of the written document are a permutation of the retained pages,
\* ordered by depth ascending and by URL ascending within a depth
SortedByDepthThenURL ==
    genErr \in {"nil", "writeFailed"} =>
        /\ SeqToSet(pages) = RetainedPages
        /\ Len(pages) = Cardinality(RetainedPages)
        /\ \A i, j \in 1..Len(pages) : i < j => InDepthURLOrder(pages[i], pages[j])
        /\ genErr = "nil" => outputFile.pages = pages

\* pages added as (page1, 1), (/, 0), (api, 0), (page2, 1) are written in the
\* order /, api, page1, page2
SortedFourPagesAddedOutOfOrder ==
    /\ genErr = "nil"
    /\ added = << [input |-> 3, depth |-> 1], [input |-> 1, depth |-> 0],
                  [input |-> 2, depth |-> 0], [input |-> 4, depth |-> 1] >>
    /\ [k \in 1..4 |-> outputFile.pages[k].URL] =
          << AggInputs[1].url, AggInputs[2].url, AggInputs[3].url, AggInputs[4].url >>

\* the page of the site that has URL u
SitePage(u) == CHOOSE i \in SiteURLs : URLOf(i) = u

\* C13: of the URLs the page handler processed whose extracted content is
\* byte-identical exactly one is retained, under every configuration: no
\* two retained pages were extracted from the same content
OneRetainedPagePerExtractedContent ==
    \A i, j \in 1..Len(pages) :
        i # j => extractContent(SitePage(pages[i].URL)) # extractContent(SitePage(pages[j].URL))

\* the backoffs slept during visitWithRetry for seed s, in order
SeedSleeps(s) == SelectSeq(sleeps, LAMBDA e : e.seed = s)

FailedAttempts(s) == Len(SelectSeq(SeedAttempts(s), LAMBDA e : ~e.ok))

IsRetryOf(k) ==
    /\ fetchLog[k + 1].page = fetchLog[k].page
    /\ fetchLog[k + 1].kind = fetchLog[k].kind
    /\ fetchLog[k + 1].from = fetchLog[k].from

\* the failed fetches in a row that end with entry k
RECURSIVE FailedRun(_)
FailedRun(k) ==
    IF fetchLog[k].ok THEN 0
    ELSE IF k > 1 /\ IsRetryOf(k - 1) THEN 1 + FailedRun(k - 1)
    ELSE 1

\* C15: every fetch that fails, of a seed or of a discovered link, is retried
\* up to the retry budget before the URL is given up: a failed fetch after
\* which the crawl went on to another URL was the last of maxRetries failed
\* attempts
FailedFetchRetriedUpToBudget ==
    \A k \in 1..(Len(fetchLog) - 1) :
        ~fetchLog[k].ok => (IsRetryOf(k) \/ FailedRun(k) = maxRetries)

\* C16: once RunWithContext has returned a timeout or cancellation error the
\* run does not write the output document
NoOutputAfterTimeoutReturned ==
    [][(mainPC = "returned" /\ result \in CtxErrors) => (outputFile' = outputFile)]_vars

\* the pages at most n link hops away from a seed
RECURSIVE WithinHops(_)
WithinHops(n) ==
    IF n = 0 THEN SeqToSet(config.StartURLs)
    ELSE WithinHops(n - 1) \cup
         { t \in SiteURLs : \E i \in WithinHops(n - 1) : t \in SeqToSet(LinksOf(i)) }

\* link hops from the nearest seed to page i, a page some seed reaches
HopsFromNearestSeed(i) ==
    CHOOSE n \in 0..NUrls : i \in WithinHops(n) /\ \A m \in 0..(n - 1) : i \notin WithinHops(m)

\* C17: the depth recorded for an aggregated page is the minimum number of
\* link hops from a seed to it, 0 for a seed
DepthIsHopsFromNearestSeed ==
    \A k \in 1..Len(pages) :
        pages[k].Depth = HopsFromNearestSeed(SitePage(pages[k].URL))

\* every element the content selector matches on page i is empty or white
\* space (or it matches nothing)
WhitespaceOnly(i) ==
    \A e \in 1..Len(BodyOf(i)) : BodyOf(i)[e] \in {"", " ", "\n", "\t"}

\* C18: a fetched page whose extracted content is empty or whitespace-only
\* is never added to the Aggregator, the page counter counts only the
\* handled pages that have content, and the successful fetch of such a page
\* is neither retried nor reported as a failed seed
EmptyContentPageSkipped ==
    /\ \A k \in 1..Len(pages) : ~WhitespaceOnly(SitePage(pages[k].URL))
    /\ pageCount = Cardinality({u \in visitedURLs : ~WhitespaceOnly(SitePage(u))})
    /\ \A k \in 1..Len(fetchLog) :
          (fetchLog[k].ok /\ WhitespaceOnly(fetchLog[k].page)) =>
              /\ k < Len(fetchLog) => ~IsRetryOf(k)
              /\ \A s \in Seeds :
                    (IsSeedEntry(fetchLog[k], s) /\ fetchLog[k].kind = "seed")
                        => s \notin SeqToSet(allErrors)

\* the seed x.io/docs, whose content is white space, was fetched at the first
\* attempt and handled, nothing was aggregated, and the worker went on to
\* the next seed
SkippedWhitespaceOnlySeed ==
    /\ config.StartURLs = <<5, 1>>
    /\ seedIdx = 2
    /\ Len(fetchLog) = 1
    /\ fetchLog[1].ok
    /\ URLOf(5) \in visitedURLs
    /\ pages = <<>>
    /\ pageCount = 0
    /\ allErrors = <<>>

\* C19: GenerateOutput on an Aggregator that holds no page returns the "no
\* pages" error and nothing else happens: the output file is not created or
\* written and the page collection stays empty; with a page it never
\* returns that error
NoPagesErrorLeavesFileUntouched ==
    /\ genErr = "noPages" =>
          /\ outputFile = NoFile
          /\ pages = <<>>
          /\ contentHashes = {}
    /\ genErr \in {"nil", "writeFailed"} => pages # <<>>
    /\ outputFile.written => outputFile.pages # <<>>

\* GenerateOutput was called before any AddPage and returned "no pages"
GenerateOutputCalledWithoutPages ==
    /\ genErr = "noPages"
    /\ added = <<>>
    /\ outputFile = NoFile

\* the elements of the written body that are pages, in order
BodySections == SelectSeq(outputFile.body, LAMBDA e : e.kind = "page")

\* C20: each page is rendered with a heading of level min(depth + 1, 6),
\* which lies between 1 and 6; Home at depth 0 gets a level-1 heading and
\* API at depth 1 a level-2 heading
HeadingLevelIsDepthPlusOneCappedAtSix ==
    genErr = "nil" =>
        /\ Len(BodySections) = Len(outputFile.pages)
        /\ \A k \in 1..Len(BodySections) :
              LET depth == outputFile.pages[k].Depth
                  level == BodySections[k].level
              IN  /\ level = IF depth + 1 < 6 THEN depth + 1 ELSE 6
                  /\ level >= 1
                  /\ level <= 6
                  /\ (outputFile.pages[k].Title = <<"Home">> /\ depth = 0) => level = 1
                  /\ (outputFile.pages[k].Title = <<"API">> /\ depth = 1) => level = 2

\* a document with Home at depth 0 under a level-1 heading, API at depth 1
\* under a level-2 heading and a page of depth 6 under a level-6 heading
RenderedHomeApiAndDeepPage ==
    /\ genErr = "nil"
    /\ Len(BodySections) = 3
    /\ BodySections[1].title = <<"Home">> /\ BodySections[1].level = 1
    /\ BodySections[2].title = <<"API">> /\ BodySections[2].level = 2
    /\ outputFile.pages[3].Depth = 6 /\ BodySections[3].level = 6

\* C21: with the table of contents enabled the written document has one
\* entry per retained page, in the (depth, URL) order of the pages, each
\* indented by two spaces per depth level and linking to createAnchor of the
\* page's title; with it disabled there is no table of contents
TocHasOneEntryPerPageInOrder ==
    genErr = "nil" =>
        IF config.GenerateTOC
        THEN /\ Len(outputFile.toc) = Cardinality(RetainedPages)
             /\ \A k \in 1..Len(outputFile.toc) :
                   /\ outputFile.pages[k] \in RetainedPages
                   /\ outputFile.toc[k].title = outputFile.pages[k].Title
                   /\ outputFile.toc[k].indent = outputFile.pages[k].Depth + outputFile.pages[k].Depth
                   /\ outputFile.toc[k].anchor = createAnchor(TitleString(outputFile.pages[k].Title))
             /\ \A i, j \in 1..Len(outputFile.pages) :
                   i < j => InDepthURLOrder(outputFile.pages[i], outputFile.pages[j])
        ELSE outputFile.toc = <<>>

\* a table of contents with Home at depth 0, API at depth 1 and "Page 1" at
\* depth 6: indents 0, 2 and 12, anchors home, api and page-1
TocOfThreePages ==
    /\ genErr = "nil"
    /\ config.GenerateTOC
    /\ outputFile.toc =
          << [indent |-> 0, title |-> <<"Home">>, anchor |-> <<"home">>],
             [indent |-> 2, title |-> <<"API">>, anchor |-> <<"api">>],
             [indent |-> 12, title |-> <<"Page", "1">>, anchor |-> <<"page", "-", "1">>] >>

\* the ASCII punctuation and the dashes and quotes of Unicode punctuation
\* that occur in titles; the hyphen is not in it
PunctuationChars ==
    SeqToSet(StrippedChars) \cup {"_", "~", EnDash}

\* C22: createAnchor returns the title lower-cased, each space turned into a
\* hyphen and every punctuation character removed, with no run of hyphens
\* and no hyphen at either end; "What is React? (A Guide)" gives
\* "what-is-react-a-guide"
AnchorIsLowerCaseHyphenatedWithoutPunctuation ==
    anchor.called =>
        /\ \A k \in 1..Len(anchor.value) :
              /\ anchor.value[k] \notin PunctuationChars \cup {" "}
              /\ anchor.value[k] = ToLower(anchor.value[k])
        /\ ~ContainsDoubleHyphen(anchor.value)
        /\ anchor.value # <<>> =>
              (Head(anchor.value) # "-" /\ anchor.value[Len(anchor.value)] # "-")
        /\ probe = WhatIsReact =>
              anchor.value = <<"what", "-", "is", "-", "react", "-", "a", "-", "guide">>

\* C23: every page handed to the Aggregator has a non-empty title
RetainedTitleNeverEmpty ==
    \A k \in 1..Len(pages) : pages[k].Title # <<>>

\* the keywords C24 names
NamedKeywords == {"blog", "privacy", "terms", "about", "careers"}

\* C24: a URL whose last path segment is a keyword, in any case, is rejected
\* as non-documentation, while /blogging-guide and /blog/post are not
KeywordMatchedAsWholeSegment ==
    verdict # "none" =>
        /\ (probe[Len(probe) - 1] = "/" /\ ToLower(probe[Len(probe)]) \in NamedKeywords)
              => verdict = "reject"
        /\ (/\ probe \in {BlogPostURL, BloggingGuideURL}
            /\ config.FollowPatterns = <<>>
            /\ config.IgnorePatterns = <<>>)
              => verdict = "follow"

\* C25: with respect_robots enabled no URL that robots.txt disallows is
\* fetched
DisallowedURLNeverFetched ==
    config.RespectRobots =>
        \A k \in 1..Len(fetchLog) : fetchLog[k].ok => ~Disallowed(fetchLog[k].page)

\* C26: an AddPage call whose content is already retained leaves the
\* Aggregator unchanged: the page collection, with the url, title and depth
\* of the first writer, its length and order, and the set of content hashes
DuplicateAddLeavesAggregatorUnchanged ==
    [][ (/\ Len(added') = Len(added) + 1
         /\ \E k \in 1..Len(pages) :
               pages[k].Content = AggInputs[added'[Len(added')].input].content)
        => (pages' = pages /\ contentHashes' = contentHashes) ]_vars

\* /page1 was added at depth 1, then /page1/ with the same content at depth
\* 0: the one retained page is the first writer's
SecondWriterDropped ==
    /\ added = << [input |-> 3, depth |-> 1], [input |-> 5, depth |-> 0] >>
    /\ pages = << NewPage(AggInputs[3].url, AggInputs[3].title, AggInputs[3].content, 1) >>
    /\ contentHashes = {Sha256(AggInputs[3].content)}

\* the markdown handleHTML hands to AddPage for page i fetched at a depth
HandedContent(i, depth) ==
    ConvertToMarkdown(NewPage(URLOf(i), extractTitle(i), extractContent(i), depth)).markdown

\* C27: when a link of a page is handed to the collector, and while the
\* handler of a page is in its link discovery, the AddPage call for that
\* page has completed: its content hash is recorded and a page with that
\* content is retained
AddPageBeforeLinkSubmission ==
    /\ \A k \in 1..Len(fetchLog) :
          fetchLog[k].kind = "link" =>
             /\ Sha256(HandedContent(fetchLog[k].from, fetchLog[k].fromDepth)) \in contentHashes
             /\ \E p \in 1..Len(pages) :
                   pages[p].Content = HandedContent(fetchLog[k].from, fetchLog[k].fromDepth)
    /\ \A f \in 1..Len(stack) :
          Sha256(HandedContent(stack[f].page, stack[f].depth)) \in contentHashes

\* the first link of the seed /docs was submitted and failed: /docs is
\* retained already
SeedRetainedWhenFirstLinkSubmitted ==
    /\ Len(fetchLog) = 2
    /\ fetchLog[2].kind = "link"
    /\ fetchLog[2].from = 1
    /\ ~fetchLog[2].ok
    /\ Len(pages) = 1
    /\ pages[1].URL = URLOf(1)

\* C28: GenerateOutput starts, and the document is written, only when every
\* seed has been processed and no fetch or page handler of the run is still
\* outstanding, so no AddPage runs while the pages are sorted and rendered
GenerateOutputAfterAllWorkDone ==
    (workerPC = "generate" \/ outputFile.written) =>
        /\ stack = <<>>
        /\ seedIdx > Len(config.StartURLs)

\* GenerateOutput is about to start after a crawl that nested three page
\* handlers
GenerateStartsAfterNestedCrawl ==
    /\ workerPC = "generate"
    /\ Len(pages) >= 3
    /\ \E k \in 1..Len(fetchLog) : fetchLog[k].kind = "link" /\ fetchLog[k].fromDepth = 2

\* C29: between page handlers the page counter equals the number of pages
\* the Aggregator retains
PageCountIsRetainedPages == pageCount = GetPageCount

\* C30: every run starts with an empty visitation record, a zero page
\* counter and an empty page collection
RunStartsWithEmptyState ==
    (workerPC = "seedLoop" /\ seedIdx = 1 /\ mainPC = "select" /\ fetchLog = <<>>) =>
        /\ visitedURLs = {}
        /\ pageCount = 0
        /\ pages = <<>>
        /\ contentHashes = {}

\* the elements of the written body that are page separators
BodyRules == SelectSeq(outputFile.body, LAMBDA e : e.kind = "rule")

\* C31: the body of a document of N >= 1 pages holds exactly N - 1 page
\* separators: pages and separators alternate, starting and ending with a
\* page
BodyHasOneSeparatorBetweenPages ==
    genErr = "nil" =>
        /\ Len(outputFile.pages) >= 1
        /\ Len(BodySections) = Len(outputFile.pages)
        /\ Len(BodyRules) = Len(outputFile.pages) - 1
        /\ \A k \in 1..Len(outputFile.body) :
              outputFile.body[k].kind = IF k % 2 = 1 THEN "page" ELSE "rule"
        /\ outputFile.body[Len(outputFile.body)].kind = "page"

\* a document of the two pages Home and API: page, separator, page
TwoPagesOneSeparator ==
    /\ genErr = "nil"
    /\ Len(outputFile.pages) = 2
    /\ Len(outputFile.body) = 3
    /\ outputFile.body[1].title = <<"Home">>
    /\ outputFile.body[2] = PageRule
    /\ outputFile.body[3].title = <<"API">>

\* the positions of a title whose word differs, ignoring case, from the word
\* immediately before it
KeptPositions(w) == { k \in 1..Len(w) : k = 1 \/ ToLower(w[k]) # ToLower(w[k - 1]) }

\* the words of w at the positions kept, in order
KeptWords(w) ==
    [i \in 1..Cardinality(KeptPositions(w)) |->
        w[CHOOSE k \in KeptPositions(w) :
              Cardinality({j \in KeptPositions(w) : j <= k}) = i]]

HasInvalidPattern(patterns) == \E k \in 1..Len(patterns) : patterns[k] = InvalidRegex

\* C33: New fails for a configuration with an invalid follow or ignore
\* pattern, with an error naming the kind of the pattern, and as long as New
\* has not returned a Scraper nothing is fetched, aggregated or written
InvalidPatternFailsNew ==
    /\ newErr # "none" =>
          /\ HasInvalidPattern(config.FollowPatterns) => newErr = "invalid follow pattern"
          /\ (~HasInvalidPattern(config.FollowPatterns)
                /\ HasInvalidPattern(config.IgnorePatterns)) => newErr = "invalid ignore pattern"
          /\ (~HasInvalidPattern(config.FollowPatterns)
                /\ ~HasInvalidPattern(config.IgnorePatterns)) => newErr = "nil"
    /\ newErr # "nil" =>
          /\ fetchLog = <<>>
          /\ visitedURLs = {}
          /\ pages = <<>>
          /\ workerPC = "seedLoop"
          /\ mainPC = "select"
          /\ ~outputFile.written

\* New returned the ignore-pattern error for a configuration whose follow
\* patterns are valid
NewRejectedInvalidIgnorePattern ==
    /\ newErr = "invalid ignore pattern"
    /\ config.FollowPatterns = <<DocsPrefix>>
    /\ config.IgnorePatterns = <<InvalidRegex, SuffixA>>

\* C34: no two pages retained in a run have the same URL, however often a
\* URL is delivered to the page handler
NoURLAggregatedTwice ==
    \A i, j \in 1..Len(pages) : i # j => pages[i].URL # pages[j].URL

\* /docs/a was fetched as a link of /docs and again as the second seed, and
\* is retained once
DeliveredTwiceRetainedOnce ==
    /\ \E a, b \in 1..Len(fetchLog) :
          /\ a < b
          /\ fetchLog[a].page = 2 /\ fetchLog[a].ok /\ fetchLog[a].kind = "link"
          /\ fetchLog[b].page = 2 /\ fetchLog[b].ok /\ fetchLog[b].kind = "seed"
    /\ Cardinality({k \in 1..Len(pages) : pages[k].URL = URLOf(2)}) = 1

\* C35: the worker goroutine ends only by sending one result and closing the
\* channel. The buffer of capacity 1 is empty until then, so the send does not
\* block, also after RunWithContext has returned; and the channel is never
\* closed and empty while RunWithContext is still waiting, so what it
\* receives is the value the worker sent
WorkerSendsExactlyOneResult ==
    /\ Len(done) <= 1
    /\ (workerPC = "exit") = doneClosed
    /\ ~doneClosed => done = <<>>
    /\ doneClosed => (Len(done) = 1 \/ mainPC = "returned")
    /\ (mainPC = "select" /\ doneClosed) => Len(done) = 1

\* RunWithContext returned the deadline error; the worker sent its result
\* afterwards without blocking, and it stays in the buffer
ResultSentAfterDeadlineReturn ==
    /\ mainPC = "returned"
    /\ result = "deadline"
    /\ workerPC = "exit"
    /\ sentAfterCtx
    /\ Len(done) = 1

\* C36: RunWithContext returns in every run, and once the deadline has
\* expired or the parent context is cancelled it returns whatever the worker
\* does
RunWithContextAlwaysReturns ==
    /\ <>(mainPC = "returned")
    /\ [](ctxErr # "none" => <>(mainPC = "returned"))

\* RunWithContext returned the deadline error while the first fetch of the
\* seed had not completed
ReturnedWhileFetchPending ==
    /\ mainPC = "returned"
    /\ result = "deadline"
    /\ workerPC = "visit"
    /\ fetchLog = <<>>

\* C37: every retained page has a depth of at most max depth, and every URL
\* handed to the collector, seed or link, is requested at a depth of at most
\* max depth (the seeds are requested at SeedDepth, which max_depth > 0 never
\* falls below)
DepthNeverExceedsMaxDepth ==
    /\ SeedDepth <= config.MaxDepth
    /\ \A k \in 1..Len(pages) : pages[k].Depth <= config.MaxDepth
    /\ \A k \in 1..Len(fetchLog) :
          IF fetchLog[k].kind = "link"
          THEN fetchLog[k].fromDepth + 1 <= config.MaxDepth
          ELSE fetchLog[k].fromDepth = 0
    /\ \A f \in 1..Len(stack) : stack[f].depth < config.MaxDepth

\* with max depth 3 the crawl is over and a page was retained at depth 3
CrawlReachedMaxDepthThree ==
    /\ config.MaxDepth = 3
    /\ workerPC = "exit"
    /\ \E k \in 1..Len(pages) : pages[k].Depth = 3
    /\ \E k \in 1..Len(fetchLog) : fetchLog[k].kind = "link" /\ fetchLog[k].fromDepth = 2

\* the host of url is an allowed domain or a name below one, or the
\* allow-list is empty
OnAllowedHost(url) ==
    \/ config.AllowedDomains = <<>>
    \/ \E k \in 1..Len(config.AllowedDomains) :
          HostWithin(ParseHost(url), config.AllowedDomains[k])

\* C38: every retained page, seeds included, is on an allowed host; a page
\* on a disallowed host is not marked as visited and no link is submitted
\* from it
RetainedPagesOnAllowedHosts ==
    /\ \A k \in 1..Len(pages) : OnAllowedHost(pages[k].URL)
    /\ \A u \in visitedURLs : OnAllowedHost(u)
    /\ \A k \in 1..Len(fetchLog) :
          fetchLog[k].kind = "link" =>
             /\ OnAllowedHost(URLOf(fetchLog[k].from))
             /\ OnAllowedHost(URLOf(fetchLog[k].page))
    /\ \A f \in 1..Len(stack) : OnAllowedHost(URLOf(stack[f].page))

\* the seed on x.io was fetched with d.io as the only allowed domain: it is
\* not retained, not marked as visited and its link was not followed, while
\* the second seed was aggregated
SeedOnDisallowedHostSkipped ==
    /\ config.AllowedDomains = <<DocsHost>>
    /\ config.StartURLs = <<5, 1>>
    /\ workerPC = "exit"
    /\ Len(fetchLog) >= 1
    /\ fetchLog[1].page = 5 /\ fetchLog[1].ok
    /\ URLOf(5) \notin visitedURLs
    /\ \A k \in 1..Len(fetchLog) : fetchLog[k].from # 5
    /\ Len(pages) >= 1

\* the pages retained when the calls are made in the given order
RECURSIVE RetainedSeq(_)
RetainedSeq(calls) ==
    IF calls = <<>> THEN <<>>
    ELSE LET rest == RetainedSeq(SubSeq(calls, 1, Len(calls) - 1))
             page == AddedPage(calls[Len(calls)])
         IN  IF \E k \in 1..Len(rest) : rest[k].Content = page.Content
             THEN rest
             ELSE Append(rest, page)

\* the orders in which n calls can be made
Orders(n) == { f \in [1..n -> 1..n] : \A i, j \in 1..n : i # j => f[i] # f[j] }

\* C39: the pages of the written document are the ones any other order of
\* the same AddPage calls would have given
DocumentIndependentOfOrder ==
    genErr = "nil" =>
        \A f \in Orders(Len(added)) :
            outputFile.pages = sortPages(RetainedSeq([k \in 1..Len(added) |-> added[f[k]]]))

\* C40: the title of each table-of-contents entry, and the title its anchor
\* is derived from, is the title of the page's heading in the body
TocTitleIsHeadingTitle ==
    (genErr = "nil" /\ config.GenerateTOC) =>
        \A k \in 1..Len(outputFile.toc) :
            /\ outputFile.toc[k].title = BodySections[k].title
            /\ outputFile.toc[k].anchor = createAnchor(TitleString(BodySections[k].title))

====
